---- MODULE Spec2Model ----
(***************************************************************************)
(* Model of the slate drawing board: the zustand store of                  *)
(* src/lib/storage/store.ts (element collection, selection, viewport and   *)
(* the undo/redo history) and the pointer handlers of                      *)
(* components/DrawingBoard/Canvas/mouseHandlers (draw, select, drag,       *)
(* resize, pan, box-select) with the geometry they call.                   *)
(*                                                                         *)
(* Coordinates are integers; every comparison that the code makes on a     *)
(* quotient or a square root is made here on the cross-multiplied or       *)
(* squared integers, so that it decides exactly as the code does.          *)
(* Style fields of an element (colours, stroke, opacity, ...) are carried  *)
(* through unchanged by every handler and are left out of the records.     *)
(***************************************************************************)
EXTENDS Integers, Sequences, FiniteSets, TLC

(***************************************************************************)
(* Bounds of the model.                                                    *)
(***************************************************************************)
\* The program's HISTORY_LIMIT is 50 (src/lib/drawing/types.ts:180).  The
\* model keeps the same truncation rule under a smaller limit so that more
\* than HISTORY_LIMIT checkpoints are reached within the explored depth.
HISTORY_LIMIT == 2

\* Number of ids the id generator (crypto.randomUUID) hands out.
MaxIds == 2

\* Number of store calls of one run of the store specification: enough for
\* HISTORY_LIMIT + 1 checkpoints followed by as many undos.
MaxCalls == 6

\* Number of input events (pointer events, tool changes) of one run of the
\* pointer specification: enough to draw a shape, choose the selection tool
\* and press on it.
MaxEvents == 5

\* Number of input events of one run of the editing specification: enough to
\* choose a tool, draw, choose the selection tool, press, drag and undo.
MaxSteps == 7

\* Largest viewport offset (world units) a pan may reach.
MaxOffset == 60

\* Largest number of points of a freehand preview.
MaxPoints == 3

(***************************************************************************)
(* Program constants.                                                      *)
(***************************************************************************)
\* canvasState.zoom is held in units of 1/ZoomUnit, in which MIN_ZOOM (0.1),
\* ZOOM_STEP (0.03) and every zoom the wheel and the buttons reach are whole
ZoomUnit == 100

MIN_ZOOM == ZoomUnit \div 10

MAX_ZOOM == 5 * ZoomUnit

DEFAULT_ZOOM == 1 * ZoomUnit

ZOOM_STEP == (3 * ZoomUnit) \div 100

DEFAULT_FONT_SIZE == 24
HANDLE_HIT_THRESHOLD == 10

ToolType == {"selection", "rectangle", "circle", "arrow", "line", "text", "freehand"}

\* null of the source, for a field that otherwise holds an object
Null == [null |-> TRUE]

\* null of the source, for resizeHandle
NullHandle == "null"

\* editingTextId when no element is under edit; the ids are 1, 2, ...
NullId == 0

VARIABLES
    elements,            \* store: DrawingElement[]
    selectedTool,        \* store: ToolType
    selectedElementIds,  \* store: string[]
    canvasState,         \* store: {zoom, offsetX, offsetY}
    history,             \* store: {past, present, future}
    drawingState,        \* Canvas component state: DrawingState
    editingTextId,       \* Canvas component state: string | null
    nextId,              \* the next id crypto.randomUUID returns
    calls,               \* number of store calls or input events made so far
    last,                \* observer: the operation that led to this state
    undone,              \* observer: present before the effective undo that came just before `last`
    law,                 \* observer: a run of structural operations followed by undos
    pushed,              \* observer: the former presents checkpointed so far
    scene,               \* observer: draw a rectangle on an empty canvas, drag it, undo
    pressed,             \* observer: the tool of the pointer-down no pointer-up has followed yet
    probe                \* observer: the last call of a geometry function and what it returned

vars == <<elements, selectedTool, selectedElementIds, canvasState, history,
          drawingState, editingTextId, nextId, calls, last, undone, law, pushed,
          scene, pressed, probe>>

storeVars == <<elements, selectedTool, selectedElementIds, canvasState, history>>

(***************************************************************************)
(* Arithmetic helpers.                                                     *)
(***************************************************************************)
Min(a, b) == IF a <= b THEN a ELSE b

Max(a, b) == IF a >= b THEN a ELSE b

Abs(a) == IF a >= 0 THEN a ELSE -a

Pt(px, py) == [x |-> px, y |-> py]

SeqToSet(s) == {s[i] : i \in 1..Len(s)}

Includes(s, v) == \E i \in 1..Len(s) : s[i] = v

RECURSIVE Filter(_, _)
\* Array.prototype.filter with the predicate given as the set of kept values
Filter(s, keep) ==
    IF s = <<>> THEN <<>>
    ELSE IF Head(s) \in keep THEN <<Head(s)>> \o Filter(Tail(s), keep)
         ELSE Filter(Tail(s), keep)

\* Array.prototype.slice(-n) for n >= 1
SliceLast(s, n) ==
    IF Len(s) <= n THEN s ELSE SubSeq(s, Len(s) - n + 1, Len(s))

(***************************************************************************)
(* Elements.  rectangle, circle and text carry width and height, line and  *)
(* arrow carry x2 and y2, freehand carries points (types.ts:28-88).        *)
(***************************************************************************)
Rect(id, px, py, w, h) ==
    [id |-> id, type |-> "rectangle", x |-> px, y |-> py, width |-> w, height |-> h]

\* { ...el, ...updates }
Spread(el, updates) ==
    [f \in (DOMAIN el) \union (DOMAIN updates) |->
        IF f \in DOMAIN updates THEN updates[f] ELSE el[f]]

(***************************************************************************)
(* Geometry kernel (lib/drawing/utils).                                    *)
(***************************************************************************)
\* pointInRectangle with the four bounds exclusive
pointInRectangleStrict(point, x, y, width, height) ==
    /\ point.x > x
    /\ point.x < x + width
    /\ point.y > y
    /\ point.y < y + height

pointInRectangle(point, x, y, width, height) ==
    /\ point.x >= x
    /\ point.x <= x + width
    /\ point.y >= y
    /\ point.y <= y + height

\* centre and radius are given doubled (cx2 = 2*centerX, d = 2*radius), so
\* that the halves of the source stay integers:
\* dx*dx + dy*dy <= radius*radius, multiplied by 4
pointInCircle2(point, cx2, cy2, d) ==
    LET dx2 == 2 * point.x - cx2
        dy2 == 2 * point.y - cy2
    IN dx2 * dx2 + dy2 * dy2 <= d * d

\* c * c < m for c >= 0 and 0 <= m < 2^31, without leaving 32 bits
SquareLess(c, m) == c < 46341 /\ c * c < m

\* distance from point to its projection on the segment, clamped to the
\* segment, compared with threshold.  Inside the segment the squared distance
\* is (A*A + B*B) - dot*dot/lenSq = (A*D - B*C)^2 / lenSq, compared here
\* multiplied by lenSq.
pointOnLine(point, x1, y1, x2, y2, threshold) ==
    LET A == point.x - x1
        B == point.y - y1
        C == x2 - x1
        D == y2 - y1
        dot == A * C + B * D
        lenSq == C * C + D * D
    IN IF lenSq = 0 \/ dot < 0
         THEN A * A + B * B < threshold * threshold
       ELSE IF dot > lenSq
         THEN (point.x - x2) * (point.x - x2) + (point.y - y2) * (point.y - y2)
                  < threshold * threshold
       ELSE SquareLess(Abs(A * D - B * C), threshold * threshold * lenSq)

pointInFreehand(point, points, threshold) ==
    \E i \in 1..(Len(points) - 1) :
        pointOnLine(point, points[i].x, points[i].y, points[i + 1].x, points[i + 1].y, threshold)

isPointInElement(point, element) ==
    CASE element.type \in {"rectangle", "text"} ->
           pointInRectangle(point, element.x, element.y, element.width, element.height)
      [] element.type = "circle" ->
           pointInCircle2(point, 2 * element.x + element.width,
                          2 * element.y + element.height,
                          Max(element.width, element.height))
      [] element.type \in {"line", "arrow"} ->
           pointOnLine(point, element.x, element.y, element.x2, element.y2, 5)
      [] element.type = "freehand" ->
           pointInFreehand(point, element.points, 10)
      [] OTHER -> FALSE

\* Math.min(...xs) over a non-empty set
MinOf(S) == CHOOSE m \in S : \A v \in S : m <= v

MaxOf(S) == CHOOSE m \in S : \A v \in S : m >= v

getElementBounds(element) ==
    CASE element.type \in {"rectangle", "circle", "text"} ->
           [minX |-> element.x, minY |-> element.y,
            maxX |-> element.x + element.width, maxY |-> element.y + element.height]
      [] element.type \in {"line", "arrow"} ->
           [minX |-> Min(element.x, element.x2), minY |-> Min(element.y, element.y2),
            maxX |-> Max(element.x, element.x2), maxY |-> Max(element.y, element.y2)]
      [] element.type = "freehand" ->
           IF Len(element.points) = 0
             THEN [minX |-> 0, minY |-> 0, maxX |-> 0, maxY |-> 0]
             ELSE LET xs == {element.points[i].x : i \in 1..Len(element.points)}
                      ys == {element.points[i].y : i \in 1..Len(element.points)}
                  IN [minX |-> MinOf(xs), minY |-> MinOf(ys),
                      maxX |-> MaxOf(xs), maxY |-> MaxOf(ys)]

\* the box around all elements; zeros for none
getBoundingBox(els) ==
    IF Len(els) = 0
      THEN [minX |-> 0, minY |-> 0, maxX |-> 0, maxY |-> 0]
      ELSE LET bounds == [i \in 1..Len(els) |-> getElementBounds(els[i])]
           IN [minX |-> MinOf({bounds[i].minX : i \in 1..Len(els)}),
               minY |-> MinOf({bounds[i].minY : i \in 1..Len(els)}),
               maxX |-> MaxOf({bounds[i].maxX : i \in 1..Len(els)}),
               maxY |-> MaxOf({bounds[i].maxY : i \in 1..Len(els)})]

\* the tags elementsToSVG appends for one element, with their geometry
\* attributes; cx, cy and r of a circle are given doubled, and of the arrow
\* head only the tip is kept
svgTags(element) ==
    CASE element.type = "rectangle" ->
           <<[tag |-> "rect", x |-> element.x, y |-> element.y,
              width |-> element.width, height |-> element.height]>>
      [] element.type = "circle" ->
           <<[tag |-> "circle", cx2 |-> 2 * element.x + element.width,
              cy2 |-> 2 * element.y + element.height,
              r2 |-> Max(element.width, element.height)]>>
      [] element.type = "line" ->
           <<[tag |-> "line", x1 |-> element.x, y1 |-> element.y,
              x2 |-> element.x2, y2 |-> element.y2]>>
      [] element.type = "arrow" ->
           <<[tag |-> "line", x1 |-> element.x, y1 |-> element.y,
              x2 |-> element.x2, y2 |-> element.y2],
             [tag |-> "polygon", x |-> element.x2, y |-> element.y2]>>
      [] element.type = "text" ->
           <<[tag |-> "text", x |-> element.x]>>
      [] element.type = "freehand" ->
           IF Len(element.points) > 0
             THEN <<[tag |-> "path", points |-> element.points]>>
             ELSE <<>>

RECURSIVE svgBody(_)
\* elements.forEach((element) => { switch (element.type) ... svg += ... })
svgBody(els) ==
    IF els = <<>> THEN <<>> ELSE svgTags(Head(els)) \o svgBody(Tail(els))

\* elementsToSVG with the padding added to the size once
elementsToSVGPaddedOnce(els) ==
    LET bounds == getBoundingBox(els)
        padding == 20
        width == bounds.maxX - bounds.minX + padding
        height == bounds.maxY - bounds.minY + padding
    IN [width |-> width, height |-> height,
        viewBox |-> <<bounds.minX - padding, bounds.minY - padding, width, height>>,
        body |-> svgBody(els)]

\* the root svg tag's width, height and viewBox, and the tags inside it
elementsToSVG(els) ==
    LET bounds == getBoundingBox(els)
        padding == 20
        width == bounds.maxX - bounds.minX + padding * 2
        height == bounds.maxY - bounds.minY + padding * 2
    IN [width |-> width, height |-> height,
        viewBox |-> <<bounds.minX - padding, bounds.minY - padding, width, height>>,
        body |-> svgBody(els)]

\* elementIntersectsBox that does not count touching
elementIntersectsBoxStrict(element, boxMinX, boxMinY, boxMaxX, boxMaxY) ==
    LET bounds == getElementBounds(element)
    IN /\ bounds.maxX > boxMinX /\ bounds.minX < boxMaxX
       /\ bounds.maxY > boxMinY /\ bounds.minY < boxMaxY

elementIntersectsBox(element, boxMinX, boxMinY, boxMaxX, boxMaxY) ==
    LET bounds == getElementBounds(element)
        intersectsX == bounds.maxX >= boxMinX /\ bounds.minX <= boxMaxX
        intersectsY == bounds.maxY >= boxMinY /\ bounds.minY <= boxMaxY
    IN intersectsX /\ intersectsY

\* (point - offset) * zoom and point / zoom + offset, zoom in units of
\* 1/ZoomUnit.  The specifications that move the pointer keep zoom at
\* DEFAULT_ZOOM, where both are exact.
toScreenCoordinates(point, zoom, offsetX, offsetY) ==
    Pt(((point.x - offsetX) * zoom) \div ZoomUnit,
       ((point.y - offsetY) * zoom) \div ZoomUnit)

\* toWorldCoordinates that adds the offset before it divides
toWorldCoordinatesOffsetFirst(point, zoom, offsetX, offsetY) ==
    Pt(((point.x + offsetX) * ZoomUnit) \div zoom,
       ((point.y + offsetY) * ZoomUnit) \div zoom)

toWorldCoordinates(point, zoom, offsetX, offsetY) ==
    Pt(((point.x * ZoomUnit) \div zoom) + offsetX,
       ((point.y * ZoomUnit) \div zoom) + offsetY)

getWorldPoint(point) ==
    toWorldCoordinates(point, canvasState.zoom, canvasState.offsetX, canvasState.offsetY)

getScreenPoint(point) ==
    toScreenCoordinates(point, canvasState.zoom, canvasState.offsetX, canvasState.offsetY)

(***************************************************************************)
(* Resize handles (Canvas/SelectionHandles.ts).  Screen coordinates are    *)
(* integers here, so Math.round leaves them as they are; the edge          *)
(* midpoints rectX + rectWidth / 2 are compared doubled.                   *)
(***************************************************************************)
HandleOrder == <<"nw", "n", "ne", "e", "se", "s", "sw", "w">>

\* the handle positions, doubled
handlePositions2(element) ==
    LET bounds == getElementBounds(element)
        minScreen == getScreenPoint(Pt(bounds.minX, bounds.minY))
        maxScreen == getScreenPoint(Pt(bounds.maxX, bounds.maxY))
        rectX == Min(minScreen.x, maxScreen.x)
        rectY == Min(minScreen.y, maxScreen.y)
        rectWidth == Abs(maxScreen.x - minScreen.x)
        rectHeight == Abs(maxScreen.y - minScreen.y)
    IN [nw |-> Pt(2 * rectX, 2 * rectY),
        n  |-> Pt(2 * rectX + rectWidth, 2 * rectY),
        ne |-> Pt(2 * rectX + 2 * rectWidth, 2 * rectY),
        e  |-> Pt(2 * rectX + 2 * rectWidth, 2 * rectY + rectHeight),
        se |-> Pt(2 * rectX + 2 * rectWidth, 2 * rectY + 2 * rectHeight),
        s  |-> Pt(2 * rectX + rectWidth, 2 * rectY + 2 * rectHeight),
        sw |-> Pt(2 * rectX, 2 * rectY + 2 * rectHeight),
        w  |-> Pt(2 * rectX, 2 * rectY + rectHeight)]

\* Math.round of a value given doubled: halves go up
MathRound(v2) == (v2 + 1) \div 2

\* drawHandles: the centres of the eight squares it fills, doubled.  It
\* computes handlePositions as getResizeHandle does and draws each square
\* around Math.round(pos.x), Math.round(pos.y).
drawHandles(element) ==
    LET bounds == getElementBounds(element)
        minScreen == getScreenPoint(Pt(bounds.minX, bounds.minY))
        maxScreen == getScreenPoint(Pt(bounds.maxX, bounds.maxY))
        rectX == Min(minScreen.x, maxScreen.x)
        rectY == Min(minScreen.y, maxScreen.y)
        rectWidth == Abs(maxScreen.x - minScreen.x)
        rectHeight == Abs(maxScreen.y - minScreen.y)
        handlePositions ==
            [nw |-> Pt(2 * rectX, 2 * rectY),
             n  |-> Pt(2 * rectX + rectWidth, 2 * rectY),
             ne |-> Pt(2 * rectX + 2 * rectWidth, 2 * rectY),
             e  |-> Pt(2 * rectX + 2 * rectWidth, 2 * rectY + rectHeight),
             se |-> Pt(2 * rectX + 2 * rectWidth, 2 * rectY + 2 * rectHeight),
             s  |-> Pt(2 * rectX + rectWidth, 2 * rectY + 2 * rectHeight),
             sw |-> Pt(2 * rectX, 2 * rectY + 2 * rectHeight),
             w  |-> Pt(2 * rectX, 2 * rectY + rectHeight)]
    IN [h \in DOMAIN handlePositions |->
           Pt(2 * MathRound(handlePositions[h].x), 2 * MathRound(handlePositions[h].y))]

\* the first handle, in HandleOrder, nearer than HANDLE_HIT_THRESHOLD; else null
getResizeHandle(point, element) ==
    LET pos == handlePositions2(element)
        hit(i) == LET dx2 == 2 * point.x - pos[HandleOrder[i]].x
                      dy2 == 2 * point.y - pos[HandleOrder[i]].y
                  IN dx2 * dx2 + dy2 * dy2
                        < 4 * HANDLE_HIT_THRESHOLD * HANDLE_HIT_THRESHOLD
        hits == {i \in 1..8 : hit(i)}
    IN IF hits = {} THEN NullHandle ELSE HandleOrder[MinOf(hits)]

(***************************************************************************)
(* Element factories (Canvas/elementCreators.ts).                          *)
(***************************************************************************)
\* createDrawingElement that stamps every element with the same id
createDrawingElementSameId(id, type, startPoint, endPoint, minSize) ==
    [id |-> 1, type |-> type,
     x |-> Min(startPoint.x, endPoint.x),
     y |-> Min(startPoint.y, endPoint.y),
     width |-> Max(minSize, Abs(endPoint.x - startPoint.x)),
     height |-> Max(minSize, Abs(endPoint.y - startPoint.y))]

createDrawingElement(id, type, startPoint, endPoint, minSize) ==
    CASE type \in {"rectangle", "circle"} ->
           [id |-> id, type |-> type,
            x |-> Min(startPoint.x, endPoint.x),
            y |-> Min(startPoint.y, endPoint.y),
            width |-> Max(minSize, Abs(endPoint.x - startPoint.x)),
            height |-> Max(minSize, Abs(endPoint.y - startPoint.y))]
      [] type = "line" ->
           LET dx == endPoint.x - startPoint.x
               dy == endPoint.y - startPoint.y
               short == dx * dx + dy * dy < 10 * 10
           IN [id |-> id, type |-> "line", x |-> startPoint.x, y |-> startPoint.y,
               x2 |-> IF short THEN startPoint.x + 50 ELSE endPoint.x,
               y2 |-> IF short THEN startPoint.y + 50 ELSE endPoint.y]
      [] type = "arrow" ->
           [id |-> id, type |-> "arrow", x |-> startPoint.x, y |-> startPoint.y,
            x2 |-> endPoint.x, y2 |-> endPoint.y]
      [] type = "freehand" ->
           [id |-> id, type |-> "freehand", x |-> startPoint.x, y |-> startPoint.y,
            points |-> <<startPoint, endPoint>>]

createTextElement(id, position, fontSize) ==
    [id |-> id, type |-> "text", x |-> position.x, y |-> position.y,
     width |-> 100, height |-> fontSize]

\* ensureMinimumSize that returns the element as it is
ensureMinimumSizeSkipped(element, minSize) == element

ensureMinimumSize(element, minSize) ==
    IF element.type \in {"rectangle", "circle"}
      THEN IF element.width < minSize \/ element.height < minSize
             THEN [element EXCEPT !.width = Max(minSize, element.width),
                                  !.height = Max(minSize, element.height)]
             ELSE element
    ELSE IF element.type = "line"
      THEN LET dx == element.x2 - element.x
               dy == element.y2 - element.y
           IN IF dx * dx + dy * dy < 10 * 10
                THEN [element EXCEPT !.x2 = element.x + 50, !.y2 = element.y + 50]
                ELSE element
    ELSE element

(***************************************************************************)
(* The store (src/lib/storage/store.ts).                                   *)
(***************************************************************************)
EmptyHistory == [past |-> <<>>, present |-> <<>>, future |-> <<>>]

\* pushState that keeps every snapshot
pushStateNoTrim(h, els) ==
    [past |-> Append(h.past, h.present), present |-> els, future |-> <<>>]

\* pushState that keeps the oldest HISTORY_LIMIT snapshots: slice(0, HISTORY_LIMIT)
pushStateKeepOldest(h, els) ==
    LET newPast == Append(h.past, h.present)
    IN [past |-> IF Len(newPast) > HISTORY_LIMIT
                   THEN SubSeq(newPast, 1, HISTORY_LIMIT) ELSE newPast,
        present |-> els, future |-> <<>>]

\* pushState that leaves present as it was
pushStateStalePresent(h, els) ==
    LET newPast == Append(h.past, h.present)
    IN [past |-> SliceLast(newPast, HISTORY_LIMIT), present |-> h.present, future |-> <<>>]

\* pushState that keeps future
pushStateKeepFuture(h, els) ==
    LET newPast == Append(h.past, h.present)
    IN [past |-> SliceLast(newPast, HISTORY_LIMIT), present |-> els, future |-> h.future]

\* pushState with state.elements = els and state.history = h
pushState(h, els) ==
    LET newPast == Append(h.past, h.present)
        trimmedPast == IF Len(newPast) > HISTORY_LIMIT
                         THEN SliceLast(newPast, HISTORY_LIMIT)
                         ELSE newPast
    IN [past |-> trimmedPast, present |-> els, future |-> <<>>]

canUndo == Len(history.past) > 0

canRedo == Len(history.future) > 0

\* elements.map(el => el.id === id ? { ...el, ...updates } : el)
updateElement(els, id, updates) ==
    [i \in 1..Len(els) |-> IF els[i].id = id THEN Spread(els[i], updates) ELSE els[i]]

\* elements.filter(el => !ids.includes(el.id))
RemoveIds(els, ids) ==
    Filter(els, {els[i] : i \in {j \in 1..Len(els) : ~Includes(ids, els[j].id)}})

(***************************************************************************)
(* Observers.  They record what the claims speak about and are read by no  *)
(* guard and no assignment of a program variable.                          *)
(***************************************************************************)
StructuralOps == {"addElement", "deleteElement", "deleteElements", "clearCanvas", "setElements"}

LawFresh(els) == [ok |-> TRUE, base |-> els, n |-> 0, u |-> 0]

LawDead == [ok |-> FALSE, base |-> <<>>, n |-> 0, u |-> 0]

LawDone(l) == l.ok /\ l.n >= 1 /\ l.u = l.n

\* the run this call continues: the current one, or a new one that starts
\* here when past is empty
LawCur ==
    IF law.ok /\ ~LawDone(law) THEN law
    ELSE IF history.past = <<>> THEN LawFresh(elements)
    ELSE LawDead

\* a box selection is open: the test of the first branch of handleMouseUp
BoxOpen(ds) ==
    ds.isBoxSelecting /\ ds.boxSelectionStart # Null /\ ds.boxSelectionEnd # Null

\* op names the call or the event ("middleDown" is a pointer-down of the
\* middle button, "mouseDown" one of any other button);
\* kind: "struct" for a call that checkpoints, "undo", or "other"
Observe(op, kind, eff) ==
    /\ last' = [op |-> op, effective |-> eff,
                hadFuture |-> history.future # <<>>,
                stale |-> history.present # elements,
                afterUndo |-> (last.op = "undo" /\ last.effective),
                box |-> IF op \in {"mouseUp", "mouseLeave"} /\ BoxOpen(drawingState)
                          THEN IF drawingState.boxSelectionShiftKey
                                 THEN "additive" ELSE "replace"
                          ELSE "none",
                before |-> IF kind = "struct" THEN elements ELSE Null]
    /\ undone' = IF op = "undo" /\ eff THEN <<history.present>>
                 ELSE IF last.op = "undo" /\ last.effective THEN undone
                 ELSE <<>>
    /\ law' = CASE kind = "struct" ->
                     IF LawCur.ok /\ LawCur.u = 0
                       THEN [LawCur EXCEPT !.n = @ + 1] ELSE LawDead
                [] kind = "undo" ->
                     IF LawCur.ok /\ LawCur.n >= 1
                       THEN [LawCur EXCEPT !.u = @ + 1]
                     ELSE IF LawCur.ok THEN LawCur ELSE LawDead
                [] OTHER ->
                     IF history'.past = <<>> THEN LawFresh(elements') ELSE LawDead
    /\ pushed' = CASE kind = "struct" ->
                        [pushed EXCEPT !.formers = Append(@, history.present)]
                   [] (op \in {"undo", "redo"}) /\ eff ->
                        [pushed EXCEPT !.pure = FALSE]
                   [] OTHER -> pushed
    /\ scene' = CASE /\ op \in {"mouseUp", "mouseLeave"} /\ kind = "struct"
                      /\ elements = <<>> /\ history = EmptyHistory
                      /\ Len(elements') = 1 /\ elements'[1].type = "rectangle" -> "drawn"
                   [] history' = history /\ elements' = elements -> scene
                   [] /\ op = "mouseMove" /\ drawingState.isDragging
                      /\ elements' # elements
                      /\ scene \in {"drawn", "dragged"} -> "dragged"
                   [] op = "undo" /\ eff /\ scene = "dragged" -> "undone"
                   [] OTHER -> "none"
    /\ pressed' = CASE op = "middleDown" -> "middle"
                     [] op = "mouseDown" ->
                          IF selectedTool \in {"selection", "text"} THEN selectedTool
                          ELSE "shape"
                     [] op \in {"mouseUp", "mouseLeave"} -> "none"
                     [] OTHER -> pressed
    /\ probe' = probe

(***************************************************************************)
(* Store actions.                                                          *)
(***************************************************************************)
AddElement(element) ==
    /\ elements' = Append(elements, element)
    /\ history' = pushState(history, elements')
    /\ UNCHANGED <<selectedTool, selectedElementIds, canvasState>>

\* updateElement that also checkpoints, as the structural operations do
UpdateElementCheckpointed(id, updates) ==
    /\ elements' = updateElement(elements, id, updates)
    /\ history' = pushState(history, elements')
    /\ UNCHANGED <<selectedTool, selectedElementIds, canvasState>>

UpdateElement(id, updates) ==
    /\ elements' = updateElement(elements, id, updates)
    /\ UNCHANGED <<selectedTool, selectedElementIds, canvasState, history>>

DeleteElement(id) ==
    /\ elements' = RemoveIds(elements, <<id>>)
    /\ selectedElementIds' = Filter(selectedElementIds, SeqToSet(selectedElementIds) \ {id})
    /\ history' = pushState(history, elements')
    /\ UNCHANGED <<selectedTool, canvasState>>

RECURSIVE DeleteEach(_, _)
\* ids.forEach(id => deleteElement(id)) on st = [elements, selectedElementIds, history]
DeleteEach(st, ids) ==
    IF ids = <<>> THEN st
    ELSE LET els == RemoveIds(st.elements, <<Head(ids)>>)
         IN DeleteEach([elements |-> els,
                        selectedElementIds |->
                            Filter(st.selectedElementIds,
                                   SeqToSet(st.selectedElementIds) \ {Head(ids)}),
                        history |-> pushState(st.history, els)],
                       Tail(ids))

\* deleteElements that deletes, and checkpoints, id by id
DeleteElementsOneByOne(ids) ==
    LET r == DeleteEach([elements |-> elements,
                         selectedElementIds |-> selectedElementIds,
                         history |-> history], ids)
    IN /\ elements' = r.elements
       /\ selectedElementIds' = r.selectedElementIds
       /\ history' = r.history
       /\ UNCHANGED <<selectedTool, canvasState>>

DeleteElements(ids) ==
    /\ elements' = RemoveIds(elements, ids)
    /\ selectedElementIds' =
           Filter(selectedElementIds, SeqToSet(selectedElementIds) \ SeqToSet(ids))
    /\ history' = pushState(history, elements')
    /\ UNCHANGED <<selectedTool, canvasState>>

SetSelectedTool(tool) ==
    /\ selectedTool' = tool
    /\ UNCHANGED <<elements, selectedElementIds, canvasState, history>>

SetSelectedElementIds(ids) ==
    /\ selectedElementIds' = ids
    /\ UNCHANGED <<elements, selectedTool, canvasState, history>>

ClearCanvas ==
    /\ elements' = <<>>
    /\ selectedElementIds' = <<>>
    /\ history' = pushState(history, elements')
    /\ UNCHANGED <<selectedTool, canvasState>>

SetElements(els) ==
    /\ elements' = els
    /\ history' = pushState(history, elements')
    /\ UNCHANGED <<selectedTool, selectedElementIds, canvasState>>

SetZoom(zoom) ==
    /\ canvasState' = [canvasState EXCEPT !.zoom = zoom]
    /\ UNCHANGED <<elements, selectedTool, selectedElementIds, history>>

ResetCanvas ==
    /\ canvasState' = [zoom |-> DEFAULT_ZOOM, offsetX |-> 0, offsetY |-> 0]
    /\ UNCHANGED <<elements, selectedTool, selectedElementIds, history>>

\* undo without the guard on an empty past: previous falls back to []
UndoUnguarded ==
    LET previous == IF Len(history.past) = 0 THEN <<>> ELSE history.past[Len(history.past)]
        newPast == SubSeq(history.past, 1, Len(history.past) - 1)
    IN /\ elements' = previous
       /\ history' = [past |-> newPast,
                      present |-> previous,
                      future |-> <<history.present>> \o history.future]
       /\ UNCHANGED <<selectedTool, selectedElementIds, canvasState>>

\* undo that does not keep the state it leaves in future
UndoForgetsPresent ==
    IF Len(history.past) = 0
      THEN UNCHANGED storeVars
      ELSE LET previous == history.past[Len(history.past)]
               newPast == SubSeq(history.past, 1, Len(history.past) - 1)
           IN /\ elements' = previous
              /\ history' = [past |-> newPast,
                             present |-> previous,
                             future |-> history.future]
              /\ UNCHANGED <<selectedTool, selectedElementIds, canvasState>>

Undo ==
    IF Len(history.past) = 0
      THEN UNCHANGED storeVars
      ELSE LET previous == history.past[Len(history.past)]
               newPast == SubSeq(history.past, 1, Len(history.past) - 1)
           IN /\ elements' = previous
              /\ history' = [past |-> newPast,
                             present |-> previous,
                             future |-> <<history.present>> \o history.future]
              /\ UNCHANGED <<selectedTool, selectedElementIds, canvasState>>

\* redo that takes the last entry of future instead of the first
RedoFromEnd ==
    IF Len(history.future) = 0
      THEN UNCHANGED storeVars
      ELSE LET next == history.future[Len(history.future)]
               newFuture == SubSeq(history.future, 1, Len(history.future) - 1)
           IN /\ elements' = next
              /\ history' = [past |-> Append(history.past, history.present),
                             present |-> next,
                             future |-> newFuture]
              /\ UNCHANGED <<selectedTool, selectedElementIds, canvasState>>

Redo ==
    IF Len(history.future) = 0
      THEN UNCHANGED storeVars
      ELSE LET next == history.future[1]
               newFuture == Tail(history.future)
           IN /\ elements' = next
              /\ history' = [past |-> Append(history.past, history.present),
                             present |-> next,
                             future |-> newFuture]
              /\ UNCHANGED <<selectedTool, selectedElementIds, canvasState>>

(***************************************************************************)
(* Pointer handlers (createMouseHandlers).  point is the pointer position  *)
(* on the canvas (getMousePoint), button and shiftKey come from the event. *)
(***************************************************************************)
\* elements.find(el => el.id === id), Null when there is none
Find(els, id) ==
    LET idx == {i \in 1..Len(els) : els[i].id = id}
    IN IF idx = {} THEN Null ELSE els[MinOf(idx)]

ResetDrawingState ==
    [isDrawing |-> FALSE, startPoint |-> Null, currentElement |-> Null,
     isDragging |-> FALSE, dragOffset |-> Null,
     isResizing |-> FALSE, resizeHandle |-> NullHandle, resizeStartBounds |-> Null,
     isPanning |-> FALSE, panStart |-> Null,
     isBoxSelecting |-> FALSE, boxSelectionStart |-> Null,
     boxSelectionEnd |-> Null, boxSelectionShiftKey |-> FALSE]

\* no handle test: the element hit-test decides every pointer-down
HandleUnderPointerSkipped(point) == NullHandle

\* the handle the pointer is on when exactly one existing element is selected
HandleUnderPointer(point) ==
    IF Len(selectedElementIds) = 1 /\ Find(elements, selectedElementIds[1]) # Null
      THEN getResizeHandle(point, Find(elements, selectedElementIds[1]))
      ELSE NullHandle

\* the hit-test loop run front to back: the first element under the point
ClickedElementBottom(worldPoint) ==
    LET hit == {i \in 1..Len(elements) : isPointInElement(worldPoint, elements[i])}
    IN IF hit = {} THEN Null ELSE elements[MinOf(hit)]

\* for (i = elements.length - 1; i >= 0; i--) if (isPointInElement(...)) ... break
ClickedElement(worldPoint) ==
    LET hit == {i \in 1..Len(elements) : isPointInElement(worldPoint, elements[i])}
    IN IF hit = {} THEN Null ELSE elements[MaxOf(hit)]

\* the clicked-element branch if a deselecting click began a drag as well
ClickElementAlwaysDrags(clickedElement, worldPoint, shiftKey) ==
    LET deselect == shiftKey /\ Includes(selectedElementIds, clickedElement.id)
        bounds == getElementBounds(clickedElement)
    IN /\ selectedElementIds' =
              IF deselect
                THEN Filter(selectedElementIds,
                            SeqToSet(selectedElementIds) \ {clickedElement.id})
              ELSE IF shiftKey
                THEN Append(selectedElementIds, clickedElement.id)
              ELSE <<clickedElement.id>>
       /\ drawingState' =
              [drawingState EXCEPT
                  !.isDragging = TRUE,
                  !.dragOffset = Pt(worldPoint.x - bounds.minX,
                                    worldPoint.y - bounds.minY)]
       /\ UNCHANGED <<elements, selectedTool, canvasState, history>>

\* the clicked-element branch: replace the selection, or toggle the element
\* with shift, and start dragging only if the element will be selected
ClickElement(clickedElement, worldPoint, shiftKey) ==
    LET deselect == shiftKey /\ Includes(selectedElementIds, clickedElement.id)
        bounds == getElementBounds(clickedElement)
    IN /\ selectedElementIds' =
              IF deselect
                THEN Filter(selectedElementIds,
                            SeqToSet(selectedElementIds) \ {clickedElement.id})
              ELSE IF shiftKey
                THEN Append(selectedElementIds, clickedElement.id)
              ELSE <<clickedElement.id>>
       /\ drawingState' =
              IF ~deselect
                THEN [drawingState EXCEPT
                         !.isDragging = TRUE,
                         !.dragOffset = Pt(worldPoint.x - bounds.minX,
                                           worldPoint.y - bounds.minY)]
                ELSE [drawingState EXCEPT
                         !.isDragging = FALSE, !.dragOffset = Null]
       /\ UNCHANGED <<elements, selectedTool, canvasState, history>>

\* the empty-space branch if it cleared the selection with shift held too
ClickEmptyAlwaysClears(worldPoint, shiftKey) ==
    /\ selectedElementIds' = <<>>
    /\ drawingState' =
           [drawingState EXCEPT
               !.isBoxSelecting = TRUE,
               !.boxSelectionStart = worldPoint,
               !.boxSelectionEnd = worldPoint,
               !.boxSelectionShiftKey = shiftKey]
    /\ UNCHANGED <<elements, selectedTool, canvasState, history>>

\* the empty-space branch: keep the selection with shift, clear it without,
\* and start the box at the world point
ClickEmpty(worldPoint, shiftKey) ==
    /\ selectedElementIds' = IF shiftKey THEN selectedElementIds ELSE <<>>
    /\ drawingState' =
           [drawingState EXCEPT
               !.isBoxSelecting = TRUE,
               !.boxSelectionStart = worldPoint,
               !.boxSelectionEnd = worldPoint,
               !.boxSelectionShiftKey = shiftKey]
    /\ UNCHANGED <<elements, selectedTool, canvasState, history>>

\* the text branch: addElement(createTextElement(id, worldPoint, ...)) and
\* setSelectedElementIds([id]); drawingState is not set
TextClick(worldPoint) ==
    /\ elements' = Append(elements, createTextElement(nextId, worldPoint, DEFAULT_FONT_SIZE))
    /\ history' = pushState(history, elements')
    /\ selectedElementIds' = <<nextId>>
    /\ UNCHANGED <<selectedTool, canvasState, drawingState>>

handleMouseDown(point, button, shiftKey) ==
    LET worldPoint == getWorldPoint(point)
        handle == HandleUnderPointer(point)
        clickedElement == ClickedElement(worldPoint)
    IN
    IF button = 1 THEN
        /\ drawingState' = [drawingState EXCEPT !.isPanning = TRUE, !.panStart = point]
        /\ UNCHANGED <<storeVars, nextId>>
        /\ Observe("middleDown", "other", TRUE)
    ELSE IF selectedTool = "selection" THEN
        IF handle # NullHandle THEN
            /\ drawingState' =
                   [drawingState EXCEPT
                       !.isResizing = TRUE,
                       !.resizeHandle = handle,
                       !.resizeStartBounds =
                           getElementBounds(Find(elements, selectedElementIds[1]))]
            /\ UNCHANGED <<storeVars, nextId>>
            /\ Observe("mouseDown", "other", TRUE)
        ELSE IF clickedElement # Null THEN
            /\ ClickElement(clickedElement, worldPoint, shiftKey)
            /\ UNCHANGED nextId
            /\ Observe("mouseDown", "other", TRUE)
        ELSE
            /\ ClickEmpty(worldPoint, shiftKey)
            /\ UNCHANGED nextId
            /\ Observe("mouseDown", "other", TRUE)
    ELSE IF selectedTool = "text" THEN
        /\ nextId <= MaxIds
        /\ TextClick(worldPoint)
        /\ nextId' = nextId + 1
        /\ Observe("mouseDown", "struct", TRUE)
    ELSE
        /\ drawingState' = [drawingState EXCEPT !.isDrawing = TRUE, !.startPoint = worldPoint]
        /\ UNCHANGED <<storeVars, nextId>>
        /\ Observe("mouseDown", "other", TRUE)

\* the canvas's onMouseDown without the test of editingTextId
onMouseDownUnguarded(point, button, shiftKey) ==
    handleMouseDown(point, button, shiftKey)

\* onMouseDown={(e) => { if (!editingTextId) handleMouseDown(e) }}
onMouseDown(point, button, shiftKey) ==
    IF editingTextId = NullId
      THEN handleMouseDown(point, button, shiftKey)
      ELSE /\ UNCHANGED <<storeVars, drawingState, nextId>>
           /\ Observe("mouseDownSuppressed", "other", FALSE)

\* newBounds of the resize switch: the start bounds with the edges of the
\* handle replaced by the pointer's world coordinates
ResizedBounds(bounds, handle, worldPoint) ==
    [minX |-> IF handle \in {"nw", "sw", "w"} THEN worldPoint.x ELSE bounds.minX,
     minY |-> IF handle \in {"nw", "n", "ne"} THEN worldPoint.y ELSE bounds.minY,
     maxX |-> IF handle \in {"ne", "e", "se"} THEN worldPoint.x ELSE bounds.maxX,
     maxY |-> IF handle \in {"se", "s", "sw"} THEN worldPoint.y ELSE bounds.maxY]

\* the forEach of the dragging branch if it moved every element
DragEvery(els, ids, pos) ==
    [i \in 1..Len(els) |-> [els[i] EXCEPT !.x = pos.x, !.y = pos.y]]

RECURSIVE DragAll(_, _, _)
\* selectedElementIds.forEach(id => { if (elements.find(...)) updateElement(id, {x, y}) })
\* found: the elements of the handler's render, els: the store's elements
DragAll(els, ids, pos) ==
    IF ids = <<>> THEN els
    ELSE DragAll(IF Find(elements, Head(ids)) # Null
                   THEN updateElement(els, Head(ids), [x |-> pos.x, y |-> pos.y])
                   ELSE els,
                 Tail(ids), pos)

\* the dragging branch if it checkpointed each move
DragSelectionCheckpointed(pos) ==
    /\ elements' = DragAll(elements, selectedElementIds, pos)
    /\ history' = pushState(history, elements')
    /\ UNCHANGED <<selectedTool, selectedElementIds, canvasState>>

\* the store calls of the dragging branch: one updateElement for each
\* selected element, no pushState
DragSelection(pos) ==
    /\ elements' = DragAll(elements, selectedElementIds, pos)
    /\ UNCHANGED <<selectedTool, selectedElementIds, canvasState, history>>

\* the panning branch if it subtracted the screen delta as it is
PanUnscaled(point) ==
    LET dx == point.x - drawingState.panStart.x
        dy == point.y - drawingState.panStart.y
        newX == canvasState.offsetX - dx
        newY == canvasState.offsetY - dy
    IN /\ Abs(newX) <= MaxOffset /\ Abs(newY) <= MaxOffset
       /\ canvasState' = [canvasState EXCEPT !.offsetX = newX, !.offsetY = newY]
       /\ drawingState' = [drawingState EXCEPT !.panStart = point]

\* setOffset(offsetX - dx / zoom, offsetY - dy / zoom); panStart: point
Pan(point) ==
    LET dx == point.x - drawingState.panStart.x
        dy == point.y - drawingState.panStart.y
        newX == canvasState.offsetX - ((dx * ZoomUnit) \div canvasState.zoom)
        newY == canvasState.offsetY - ((dy * ZoomUnit) \div canvasState.zoom)
    IN /\ Abs(newX) <= MaxOffset /\ Abs(newY) <= MaxOffset
       /\ canvasState' = [canvasState EXCEPT !.offsetX = newX, !.offsetY = newY]
       /\ drawingState' = [drawingState EXCEPT !.panStart = point]

\* the line and arrow branch of the resize if it wrote both endpoints
ResizeLineBothEnds(element, resizeHandle, newBounds) ==
    updateElement(elements, element.id,
        [x |-> newBounds.minX, y |-> newBounds.minY,
         x2 |-> newBounds.maxX, y2 |-> newBounds.maxY])

\* handles nw, w and n write the start point, the others the end point
ResizeLine(element, resizeHandle, newBounds) ==
    IF resizeHandle \in {"nw", "w", "n"}
      THEN updateElement(elements, element.id,
               [x |-> newBounds.minX, y |-> newBounds.minY])
      ELSE updateElement(elements, element.id,
               [x2 |-> newBounds.maxX, y2 |-> newBounds.maxY])

handleMouseMove(point) ==
    LET worldPoint == getWorldPoint(point)
        ds == drawingState
    IN
    IF ds.isPanning /\ ds.panStart # Null THEN
        /\ Pan(point)
        /\ UNCHANGED <<elements, selectedTool, selectedElementIds, history, nextId>>
        /\ Observe("mouseMove", "other", TRUE)
    ELSE IF ds.isResizing /\ ds.resizeHandle # NullHandle /\ ds.resizeStartBounds # Null THEN
        LET element == IF Len(selectedElementIds) = 0 THEN Null
                       ELSE Find(elements, selectedElementIds[1])
            newBounds == ResizedBounds(ds.resizeStartBounds, ds.resizeHandle, worldPoint)
        IN /\ elements' =
                  IF element = Null THEN elements
                  ELSE IF element.type \in {"rectangle", "circle", "text"}
                    THEN updateElement(elements, element.id,
                             [x |-> newBounds.minX, y |-> newBounds.minY,
                              width |-> Max(10, newBounds.maxX - newBounds.minX),
                              height |-> Max(10, newBounds.maxY - newBounds.minY)])
                  ELSE IF element.type \in {"line", "arrow"}
                    THEN ResizeLine(element, ds.resizeHandle, newBounds)
                  ELSE elements
           /\ UNCHANGED <<selectedTool, selectedElementIds, canvasState, history,
                          drawingState, nextId>>
           /\ Observe("mouseMove", "other", TRUE)
    ELSE IF ds.isBoxSelecting /\ ds.boxSelectionStart # Null THEN
        /\ drawingState' = [ds EXCEPT !.boxSelectionEnd = worldPoint]
        /\ UNCHANGED <<storeVars, nextId>>
        /\ Observe("mouseMove", "other", TRUE)
    ELSE IF ds.isDragging /\ ds.dragOffset # Null THEN
        /\ DragSelection(Pt(worldPoint.x - ds.dragOffset.x,
                            worldPoint.y - ds.dragOffset.y))
        /\ UNCHANGED <<drawingState, nextId>>
        /\ Observe("mouseMove", "other", TRUE)
    ELSE IF ds.isDrawing /\ ds.startPoint # Null THEN
        LET fresh == ds.currentElement = Null
            id == IF fresh THEN nextId ELSE ds.currentElement.id
            append == /\ selectedTool = "freehand"
                      /\ ~fresh
                      /\ ds.currentElement.type = "freehand"
            create == ~append /\ selectedTool \notin {"text", "selection"}
        IN /\ append => Len(ds.currentElement.points) < MaxPoints
           /\ (create /\ fresh) => nextId <= MaxIds
           /\ drawingState' =
                  IF append
                    THEN [ds EXCEPT !.currentElement =
                             [ds.currentElement EXCEPT !.points = Append(@, worldPoint)]]
                  ELSE IF create
                    THEN [ds EXCEPT !.currentElement =
                             createDrawingElement(id, selectedTool, ds.startPoint, worldPoint, 1)]
                  ELSE ds
           /\ nextId' = IF create /\ fresh THEN nextId + 1 ELSE nextId
           /\ UNCHANGED storeVars
           /\ Observe("mouseMove", "other", TRUE)
    ELSE
        /\ UNCHANGED <<storeVars, drawingState, nextId>>
        /\ Observe("mouseMove", "other", TRUE)

\* the additive merge without the includes test
PushAll(newSelection, ids) == newSelection \o ids

RECURSIVE PushNew(_, _)
\* ids.forEach(id => { if (!newSelection.includes(id)) newSelection.push(id) })
PushNew(newSelection, ids) ==
    IF ids = <<>> THEN newSelection
    ELSE PushNew(IF Includes(newSelection, Head(ids)) THEN newSelection
                 ELSE Append(newSelection, Head(ids)),
                 Tail(ids))

\* op: "mouseUp" or "mouseLeave"; both events are wired to this handler and
\* both pass their event, so the pointer position is always at hand
handleMouseUp(point, op) ==
    LET ds == drawingState
    IN
    IF BoxOpen(ds) THEN
        LET boxMinX == Min(ds.boxSelectionStart.x, ds.boxSelectionEnd.x)
            boxMinY == Min(ds.boxSelectionStart.y, ds.boxSelectionEnd.y)
            boxMaxX == Max(ds.boxSelectionStart.x, ds.boxSelectionEnd.x)
            boxMaxY == Max(ds.boxSelectionStart.y, ds.boxSelectionEnd.y)
            intersectingElements ==
                Filter(elements,
                       {elements[i] : i \in {j \in 1..Len(elements) :
                            elementIntersectsBox(elements[j], boxMinX, boxMinY, boxMaxX, boxMaxY)}})
            intersectingIds ==
                [i \in 1..Len(intersectingElements) |-> intersectingElements[i].id]
        IN /\ selectedElementIds' =
                  IF ds.boxSelectionShiftKey
                    THEN PushNew(selectedElementIds, intersectingIds)
                    ELSE intersectingIds
           /\ drawingState' = [ds EXCEPT !.isBoxSelecting = FALSE,
                                         !.boxSelectionStart = Null,
                                         !.boxSelectionEnd = Null,
                                         !.boxSelectionShiftKey = FALSE]
           /\ UNCHANGED <<elements, selectedTool, canvasState, history, nextId>>
           /\ Observe(op, "other", TRUE)
    ELSE IF ds.isDrawing /\ ds.startPoint # Null /\ selectedTool \notin {"selection", "text"} THEN
        LET worldPoint == getWorldPoint(point)
            fresh == ds.currentElement = Null
            id == IF fresh THEN nextId ELSE ds.currentElement.id
            elementToAdd ==
                IF ~fresh THEN ensureMinimumSize(ds.currentElement, 20)
                ELSE createDrawingElement(id, selectedTool, ds.startPoint, worldPoint, 20)
        IN /\ fresh => nextId <= MaxIds
           /\ elements' = Append(elements, elementToAdd)
           /\ history' = pushState(history, elements')
           /\ drawingState' = ResetDrawingState
           /\ nextId' = IF fresh THEN nextId + 1 ELSE nextId
           /\ UNCHANGED <<selectedTool, selectedElementIds, canvasState>>
           /\ Observe(op, "struct", TRUE)
    ELSE
        /\ drawingState' = [ds EXCEPT !.isDrawing = FALSE,
                                      !.isDragging = FALSE,
                                      !.isResizing = FALSE,
                                      !.isPanning = FALSE,
                                      !.panStart = Null,
                                      !.isBoxSelecting = FALSE,
                                      !.boxSelectionStart = Null,
                                      !.boxSelectionEnd = Null,
                                      !.boxSelectionShiftKey = FALSE]
        /\ UNCHANGED <<storeVars, nextId>>
        /\ Observe(op, "other", TRUE)

(***************************************************************************)
(* Initial state: the store as created (store.ts:74-92) with the persisted *)
(* part merged in.  partialize (store.ts:299-303) persists elements, notes *)
(* and canvasState and not history, so a reloaded store holds the saved    *)
(* elements under an empty history.                                        *)
(***************************************************************************)
NoProbe == [fn |-> "none"]

InitialDrawingState ==
    [isDrawing |-> FALSE, startPoint |-> Null, currentElement |-> Null,
     isDragging |-> FALSE, dragOffset |-> Null,
     isResizing |-> FALSE, resizeHandle |-> NullHandle, resizeStartBounds |-> Null,
     isPanning |-> FALSE, panStart |-> Null,
     isBoxSelecting |-> FALSE, boxSelectionStart |-> Null,
     boxSelectionEnd |-> Null, boxSelectionShiftKey |-> FALSE]

PersistedElements == {<<>>, <<Rect(1, 0, 0, 40, 40)>>}

Init ==
    /\ elements \in PersistedElements
    /\ selectedTool = "selection"
    /\ selectedElementIds = <<>>
    /\ canvasState = [zoom |-> DEFAULT_ZOOM, offsetX |-> 0, offsetY |-> 0]
    /\ history = EmptyHistory
    /\ drawingState = InitialDrawingState
    /\ editingTextId = NullId
    /\ nextId = Len(elements) + 1
    /\ calls = 0
    /\ last = [op |-> "init", effective |-> FALSE, hadFuture |-> FALSE,
               stale |-> FALSE, afterUndo |-> FALSE, box |-> "none",
               before |-> Null]
    /\ undone = <<>>
    /\ law = LawFresh(elements)
    /\ pushed = [formers |-> <<>>, pure |-> TRUE]
    /\ scene = "none"
    /\ pressed = "none"
    /\ probe = NoProbe

(***************************************************************************)
(* The store driven call by call, as the controls, the keyboard shortcuts  *)
(* and the tests drive it.                                                 *)
(***************************************************************************)
AllIds == [i \in 1..MaxIds |-> i]

\* a patch as a drag makes it (mouseHandlers: updateElement(id, {x, y}))
Patches == {[x |-> 30, y |-> 30]}

ReplacementElements == {<<Rect(1, 30, 30, 40, 40)>>}

Call ==
    /\ calls < MaxCalls
    /\ calls' = calls + 1
    /\ UNCHANGED <<drawingState, editingTextId>>

CallAddElement ==
    /\ Call
    /\ nextId <= MaxIds
    /\ AddElement(Rect(nextId, 0, 0, 40, 40))
    /\ nextId' = nextId + 1
    /\ Observe("addElement", "struct", TRUE)

CallUpdateElement ==
    /\ Call
    /\ \E id \in 1..MaxIds, updates \in Patches : UpdateElement(id, updates)
    /\ UNCHANGED nextId
    /\ Observe("updateElement", "other", TRUE)

CallDeleteElement ==
    /\ Call
    /\ \E id \in 1..MaxIds : DeleteElement(id)
    /\ UNCHANGED nextId
    /\ Observe("deleteElement", "struct", TRUE)

CallDeleteElements ==
    /\ Call
    /\ \E ids \in {selectedElementIds, AllIds} : DeleteElements(ids)
    /\ UNCHANGED nextId
    /\ Observe("deleteElements", "struct", TRUE)

CallSetSelectedElementIds ==
    /\ Call
    /\ \E ids \in {<<>>, [i \in 1..Len(elements) |-> elements[i].id]} :
           SetSelectedElementIds(ids)
    /\ UNCHANGED nextId
    /\ Observe("setSelectedElementIds", "other", TRUE)

CallClearCanvas ==
    /\ Call
    /\ ClearCanvas
    /\ UNCHANGED nextId
    /\ Observe("clearCanvas", "struct", TRUE)

CallSetElements ==
    /\ Call
    /\ \E els \in ReplacementElements : SetElements(els)
    /\ UNCHANGED nextId
    /\ Observe("setElements", "struct", TRUE)

CallUndo ==
    /\ Call
    /\ Undo
    /\ UNCHANGED nextId
    /\ Observe("undo", "undo", canUndo)

CallRedo ==
    /\ Call
    /\ Redo
    /\ UNCHANGED nextId
    /\ Observe("redo", "other", canRedo)

Next ==
    \/ CallAddElement
    \/ CallUpdateElement
    \/ CallDeleteElement
    \/ CallDeleteElements
    \/ CallSetSelectedElementIds
    \/ CallClearCanvas
    \/ CallSetElements
    \/ CallUndo
    \/ CallRedo

Spec == Init /\ [][Next]_vars

(***************************************************************************)
(* Claims about the history manager, checked under Spec.                   *)
(***************************************************************************)
\* C3: starting where history.past is empty, N >= 1 checkpointed operations
\* followed by N undo() calls leave elements as they were before the first
\* of the operations, and canUndo() is false.
C3_HistoryLaw ==
    LawDone(law) => (elements = law.base /\ ~canUndo)

\* C4: redo() right after an undo() made with a non-empty past gives back the
\* present of before the undo, and elements equals it.
C4_RedoRestoresPresent ==
    (last.op = "redo" /\ last.afterUndo) =>
        (history.present = undone[1] /\ elements = history.present)

C4_Witness ==
    /\ last.op = "redo" /\ last.afterUndo /\ last.effective
    /\ undone # <<>> /\ undone[1] # <<>>
    /\ elements = undone[1]
    /\ history.future # <<>>

\* C5: right after every checkpoint and after every effective undo() or
\* redo(), history.present equals the live elements.
C5_PresentIsLive ==
    (last.op \in StructuralOps \/ (last.op \in {"undo", "redo"} /\ last.effective)) =>
        history.present = elements

C5_Witness ==
    /\ last.op \in StructuralOps /\ last.stale
    /\ history.present = elements /\ elements # <<>>

\* C6: history.past never holds more than HISTORY_LIMIT snapshots, after
\* redo() too.
C6_PastBounded ==
    Len(history.past) <= HISTORY_LIMIT

C6_Witness ==
    last.op = "redo" /\ last.effective /\ Len(history.past) = HISTORY_LIMIT

\* C7: once more than HISTORY_LIMIT checkpoints were pushed, past is exactly
\* the HISTORY_LIMIT most recent former presents, oldest first.
C7_KeepsMostRecent ==
    (pushed.pure /\ Len(pushed.formers) > HISTORY_LIMIT) =>
        /\ Len(history.past) = HISTORY_LIMIT
        /\ \A i \in 1..HISTORY_LIMIT :
               history.past[i] = pushed.formers[Len(pushed.formers) - HISTORY_LIMIT + i]

C7_Witness ==
    /\ pushed.pure /\ Len(pushed.formers) > HISTORY_LIMIT
    /\ Len(history.past) = HISTORY_LIMIT
    /\ history.past[1] # pushed.formers[1]
    /\ history.past[1] # history.past[HISTORY_LIMIT]

\* C8: after any checkpointed operation history.future is empty and
\* canRedo() is false, whatever future held before.
C8_CheckpointClearsFuture ==
    last.op \in StructuralOps => (history.future = <<>> /\ ~canRedo)

C8_Witness ==
    last.op \in StructuralOps /\ last.hadFuture /\ history.future = <<>>

\* C9: undo() with an empty past and redo() with an empty future change
\* neither elements, nor selectedElementIds, nor history.
C9_BoundaryNoOp ==
    [][((last'.op = "undo" /\ history.past = <<>>) \/
        (last'.op = "redo" /\ history.future = <<>>)) =>
           UNCHANGED <<elements, selectedElementIds, history>>]_vars

C9_Witness ==
    /\ last.op \in {"undo", "redo"} /\ ~last.effective
    /\ elements # <<>> /\ selectedElementIds # <<>>

OnlyPatched(el, el2, patch) ==
    /\ DOMAIN el2 = (DOMAIN el) \union (DOMAIN patch)
    /\ \A f \in DOMAIN el2 : el2[f] = IF f \in DOMAIN patch THEN patch[f] ELSE el[f]

\* C11: updateElement(id, patch) leaves history and selectedElementIds as
\* they are, changes only the patched fields of the element with that id,
\* keeps every other element and the order, and changes nothing when no
\* element has the id.
C11_UpdateElementFrame ==
    [][last'.op = "updateElement" =>
          /\ history' = history
          /\ selectedElementIds' = selectedElementIds
          /\ Len(elements') = Len(elements)
          /\ \E id \in 1..MaxIds, patch \in Patches :
                 \A i \in 1..Len(elements) :
                     IF elements[i].id = id
                       THEN OnlyPatched(elements[i], elements'[i], patch)
                       ELSE elements'[i] = elements[i]]_vars

C11_Witness ==
    /\ last.op = "updateElement"
    /\ Len(elements) = 2
    /\ elements[1].x # elements[2].x
    /\ elements[1].width = elements[2].width
    /\ selectedElementIds # <<>>
    /\ history.past # <<>>
    /\ history.present # elements

(***************************************************************************)
(* The canvas driven by pointer events (Canvas.tsx:437-451 wires           *)
(* onMouseDown, onMouseMove, onMouseUp and onMouseLeave) and by the tool   *)
(* shortcuts (KeyboardShortcuts.tsx:85-119), in any order.                 *)
(***************************************************************************)
ScreenPoints == {Pt(0, 0), Pt(60, 60)}

Buttons == {0, 1, 2}

Event == calls < MaxEvents /\ calls' = calls + 1 /\ UNCHANGED editingTextId

MouseDown ==
    /\ \E point \in ScreenPoints, button \in Buttons, shiftKey \in BOOLEAN :
           onMouseDown(point, button, shiftKey)
    /\ Event

MouseMove ==
    /\ \E point \in ScreenPoints : handleMouseMove(point)
    /\ Event

MouseUp ==
    /\ \E point \in ScreenPoints : handleMouseUp(point, "mouseUp")
    /\ Event

MouseLeave ==
    /\ \E point \in ScreenPoints : handleMouseUp(point, "mouseLeave")
    /\ Event

SelectTool ==
    /\ \E tool \in ToolType : SetSelectedTool(tool)
    /\ Event
    /\ UNCHANGED <<drawingState, nextId>>
    /\ Observe("setSelectedTool", "other", TRUE)

NextPointer ==
    \/ MouseDown
    \/ MouseMove
    \/ MouseUp
    \/ MouseLeave
    \/ SelectTool

SpecPointer == Init /\ [][NextPointer]_vars

(***************************************************************************)
(* An editing session: the primary button without shift, the selection and *)
(* rectangle tools, and the undo and redo shortcuts                        *)
(* (KeyboardShortcuts.tsx:122-131), in any order.                          *)
(***************************************************************************)
EditTools == {"selection", "rectangle"}

Step == calls < MaxSteps /\ calls' = calls + 1 /\ UNCHANGED editingTextId

EditMouseDown ==
    /\ \E point \in ScreenPoints : onMouseDown(point, 0, FALSE)
    /\ Step

EditMouseMove ==
    /\ \E point \in ScreenPoints : handleMouseMove(point)
    /\ Step

EditMouseUp ==
    /\ \E point \in ScreenPoints : handleMouseUp(point, "mouseUp")
    /\ Step

EditSelectTool ==
    /\ \E tool \in EditTools : SetSelectedTool(tool)
    /\ Step
    /\ UNCHANGED <<drawingState, nextId>>
    /\ Observe("setSelectedTool", "other", TRUE)

\* if (canUndo()) undo()
KeyUndo ==
    /\ IF canUndo THEN Undo ELSE UNCHANGED storeVars
    /\ Step
    /\ UNCHANGED <<drawingState, nextId>>
    /\ Observe("undo", "undo", canUndo)

\* if (canRedo()) redo()
KeyRedo ==
    /\ IF canRedo THEN Redo ELSE UNCHANGED storeVars
    /\ Step
    /\ UNCHANGED <<drawingState, nextId>>
    /\ Observe("redo", "other", canRedo)

NextEdit ==
    \/ EditMouseDown
    \/ EditMouseMove
    \/ EditMouseUp
    \/ EditSelectTool
    \/ KeyUndo
    \/ KeyRedo

SpecEdit == Init /\ [][NextEdit]_vars

\* C12: from an empty canvas with empty history, drawing one rectangle, then
\* dragging it, then one undo() leaves elements empty: the rectangle is gone,
\* not moved back.
C12_UndoRemovesDraggedRectangle ==
    scene = "undone" => elements = <<>>

C12_Witness ==
    /\ scene = "undone"
    /\ elements = <<>>
    /\ last.op = "undo" /\ last.effective /\ last.stale
    /\ history.past = <<>>
    /\ Len(history.future) = 1 /\ Len(history.future[1]) = 1
    /\ history.future[1][1].type = "rectangle"

(***************************************************************************)
(* The viewport controls: the wheel (Canvas.tsx:380-389), the zoom         *)
(* buttons (ZoomControls.tsx:10-48) and the reset shortcut                 *)
(* (KeyboardShortcuts.tsx:157-161), on a saved drawing.                    *)
(***************************************************************************)
\* deltaYPositive: e.deltaY > 0; canvasLocked: the store's lock flag
handleWheel(deltaYPositive, canvasLocked) ==
    LET delta == IF deltaYPositive THEN -ZOOM_STEP ELSE ZOOM_STEP
        newZoom == Max(MIN_ZOOM, Min(MAX_ZOOM, canvasState.zoom + delta))
    IN IF canvasLocked THEN UNCHANGED storeVars ELSE SetZoom(newZoom)

handleZoomIn ==
    SetZoom(Min(MAX_ZOOM, canvasState.zoom + ZOOM_STEP))

handleZoomOut ==
    SetZoom(Max(MIN_ZOOM, canvasState.zoom - ZOOM_STEP))

\* rect: the canvas's getBoundingClientRect().  The zoom stored is the
\* quotient cut to a whole number of units; MIN_ZOOM and MAX_ZOOM are whole,
\* so it is below MIN_ZOOM, or above MAX_ZOOM, exactly when the quotient is.
\* setZoom(zoom) and setOffset(...) are the two store calls of the handler.
handleZoomToFit(rect) ==
    IF Len(elements) = 0 THEN ResetCanvas
    ELSE LET bounds == getBoundingBox(elements)
             padding == 50
             width == bounds.maxX - bounds.minX + padding * 2
             height == bounds.maxY - bounds.minY + padding * 2
             scaleX == (rect.width * ZoomUnit) \div width
             scaleY == (rect.height * ZoomUnit) \div height
             zoom == Min(Min(scaleX, scaleY), MAX_ZOOM)
         IN /\ canvasState' =
                   [zoom |-> zoom,
                    offsetX |-> bounds.minX - padding
                                  - (((rect.width * ZoomUnit) \div zoom) - width) \div 2,
                    offsetY |-> bounds.minY - padding
                                  - (((rect.height * ZoomUnit) \div zoom) - height) \div 2]
            /\ UNCHANGED <<elements, selectedTool, selectedElementIds, history>>

handleResetZoom == ResetCanvas

\* drawings a session may have saved: none, one shape, two shapes far apart
ViewElements ==
    {<<>>, <<Rect(1, 0, 0, 40, 40)>>, <<Rect(1, 0, 0, 40, 40), Rect(2, 9000, 0, 40, 40)>>}

CanvasRects == {[width |-> 800, height |-> 600]}

InitView ==
    /\ elements \in ViewElements
    /\ selectedTool = "selection"
    /\ selectedElementIds = <<>>
    /\ canvasState = [zoom |-> DEFAULT_ZOOM, offsetX |-> 0, offsetY |-> 0]
    /\ history = EmptyHistory
    /\ drawingState = InitialDrawingState
    /\ editingTextId = NullId
    /\ nextId = Len(elements) + 1
    /\ calls = 0
    /\ last = [op |-> "init", effective |-> FALSE, hadFuture |-> FALSE,
               stale |-> FALSE, afterUndo |-> FALSE, box |-> "none",
               before |-> Null]
    /\ undone = <<>>
    /\ law = LawFresh(elements)
    /\ pushed = [formers |-> <<>>, pure |-> TRUE]
    /\ scene = "none"
    /\ pressed = "none"
    /\ probe = NoProbe

Wheel ==
    /\ \E deltaYPositive \in BOOLEAN, canvasLocked \in BOOLEAN :
           handleWheel(deltaYPositive, canvasLocked)
    /\ UNCHANGED <<drawingState, editingTextId, nextId, calls>>
    /\ Observe("wheel", "other", TRUE)

ZoomIn ==
    /\ handleZoomIn
    /\ UNCHANGED <<drawingState, editingTextId, nextId, calls>>
    /\ Observe("zoomIn", "other", TRUE)

ZoomOut ==
    /\ handleZoomOut
    /\ UNCHANGED <<drawingState, editingTextId, nextId, calls>>
    /\ Observe("zoomOut", "other", TRUE)

ZoomToFit ==
    /\ \E rect \in CanvasRects : handleZoomToFit(rect)
    /\ UNCHANGED <<drawingState, editingTextId, nextId, calls>>
    /\ Observe("zoomToFit", "other", TRUE)

ResetZoom ==
    /\ handleResetZoom
    /\ UNCHANGED <<drawingState, editingTextId, nextId, calls>>
    /\ Observe("resetZoom", "other", TRUE)

NextView ==
    \/ Wheel
    \/ ZoomIn
    \/ ZoomOut
    \/ ZoomToFit
    \/ ResetZoom

SpecView == InitView /\ [][NextView]_vars

\* C13: canvasState.zoom lies within [MIN_ZOOM, MAX_ZOOM] in every reachable
\* state: after the wheel, the zoom buttons, zoom-to-fit and reset.
C13_ZoomInRange ==
    MIN_ZOOM <= canvasState.zoom /\ canvasState.zoom <= MAX_ZOOM

(***************************************************************************)
(* Claims about the pointer state machine, checked under SpecPointer.      *)
(***************************************************************************)
GestureFlags(ds) ==
    {f \in {"isDrawing", "isDragging", "isResizing", "isPanning", "isBoxSelecting"} : ds[f]}

Idle(ds) == GestureFlags(ds) = {}

\* C1: in every reachable state at most one of isDrawing, isDragging,
\* isResizing, isPanning, isBoxSelecting is true.
C1_OneGestureAtATime ==
    Cardinality(GestureFlags(drawingState)) <= 1

\* C2: from any state with a gesture active, one pointer-up or pointer-leave
\* leaves all five gesture flags false.
C2_PointerUpEndsGesture ==
    [][(last'.op \in {"mouseUp", "mouseLeave"} /\ ~Idle(drawingState)) =>
           Idle(drawingState')]_vars

ShapeTools == {"rectangle", "circle", "line", "arrow", "freehand"}

\* the Drawing state: a shape tool, the drawing gesture and no other
Drawing(ds) ==
    /\ selectedTool \in ShapeTools
    /\ GestureFlags(ds) = {"isDrawing"}
    /\ ds.startPoint # Null

\* C14: a pointer-up in the Drawing state appends exactly one element, the
\* preview through ensureMinimumSize or a fresh factory element, and that
\* element becomes the selection: selectedElementIds = [its id].
C14_DrawingCommitSelects ==
    [][(last'.op \in {"mouseUp", "mouseLeave"} /\ Drawing(drawingState)) =>
          /\ Len(elements') = Len(elements) + 1
          /\ SubSeq(elements', 1, Len(elements)) = elements
          /\ \E point \in ScreenPoints :
                 elements'[Len(elements')] =
                     IF drawingState.currentElement # Null
                       THEN ensureMinimumSize(drawingState.currentElement, 20)
                       ELSE createDrawingElement(nextId, selectedTool,
                                                 drawingState.startPoint,
                                                 getWorldPoint(point), 20)
          /\ selectedElementIds' = <<elements'[Len(elements')].id>>]_vars

\* C15: between a pointer-down with a shape tool and the matching pointer-up
\* elements and history do not change: the pointer-down only enters Drawing
\* with startPoint = the world point, and a pointer-move only replaces the
\* preview element.
C15_DrawingGestureFrame ==
    [][/\ (last'.op = "mouseDown" /\ pressed' = "shape") =>
             /\ UNCHANGED <<elements, history>>
             /\ \E point \in ScreenPoints :
                    drawingState' = [drawingState EXCEPT !.isDrawing = TRUE,
                                                         !.startPoint = getWorldPoint(point)]
       /\ (last'.op = "mouseMove" /\ pressed = "shape") =>
             /\ UNCHANGED <<elements, history>>
             /\ drawingState' =
                    [drawingState EXCEPT !.currentElement = drawingState'.currentElement]
       /\ (last'.op = "setSelectedTool" /\ pressed = "shape") =>
             UNCHANGED <<elements, history>>]_vars

\* C16: every rectangle or circle a Drawing gesture appends is at least 20
\* wide and 20 high, and every line it appends has its endpoints at least 10
\* apart (a shorter one ends at start + (50, 50)), whether or not the pointer
\* moved during the gesture.
C16_MinimumSize ==
    [][(last'.op \in {"mouseUp", "mouseLeave"} /\ Len(elements') = Len(elements) + 1) =>
          LET el == elements'[Len(elements')]
          IN /\ el.type \in {"rectangle", "circle"} => (el.width >= 20 /\ el.height >= 20)
             /\ el.type = "line" =>
                    (el.x2 - el.x) * (el.x2 - el.x) + (el.y2 - el.y) * (el.y2 - el.y)
                        >= 10 * 10]_vars

\* next to a saved shape, a line drawn with its pointer-up where its
\* pointer-down was: it ends at start + (50, 50)
C16_Witness ==
    /\ last.op \in {"mouseUp", "mouseLeave"}
    /\ Idle(drawingState)
    /\ Len(elements) = 2
    /\ elements[1].type = "rectangle"
    /\ elements[1].width >= 20 /\ elements[1].height >= 20
    /\ elements[2].type = "line"
    /\ elements[2].x2 = elements[2].x + 50 /\ elements[2].y2 = elements[2].y + 50
    /\ history.present = elements

\* C17: a pointer-down with the text tool appends exactly one text element at
\* the clicked world point, with one checkpoint, makes its id the whole
\* selection, and leaves the gesture state Idle.
C17_TextClick ==
    [][(last'.op = "mouseDown" /\ pressed' = "text") =>
          /\ Len(elements') = Len(elements) + 1
          /\ SubSeq(elements', 1, Len(elements)) = elements
          /\ elements'[Len(elements')].type = "text"
          /\ \E point \in ScreenPoints :
                 /\ elements'[Len(elements')].x = getWorldPoint(point).x
                 /\ elements'[Len(elements')].y = getWorldPoint(point).y
          /\ history'.past = SliceLast(Append(history.past, history.present), HISTORY_LIMIT)
          /\ history'.present = elements'
          /\ selectedElementIds' = <<elements'[Len(elements')].id>>
          /\ Idle(drawingState')]_vars

\* the handles of element nearer than HANDLE_HIT_THRESHOLD to the screen point
HandlesInReach(point, element) ==
    LET pos == handlePositions2(element)
    IN {h \in SeqToSet(HandleOrder) :
           (2 * point.x - pos[h].x) * (2 * point.x - pos[h].x)
             + (2 * point.y - pos[h].y) * (2 * point.y - pos[h].y)
                 < 4 * HANDLE_HIT_THRESHOLD * HANDLE_HIT_THRESHOLD}

\* the step is a pointer-down of a button other than the middle one at point
PointerDownAt(point, shiftKey) ==
    \E button \in Buttons \ {1} : handleMouseDown(point, button, shiftKey)

\* C18: with the selection tool and exactly one element selected, a
\* pointer-down within the hit radius of one of its 8 handles enters Resizing
\* with that handle and the element's current bounds, before any element
\* hit-test: the selection stays, and neither Dragging nor BoxSelecting
\* starts, even with an element under the pointer.
C18_HandleFirst ==
    [][\A point \in ScreenPoints, shiftKey \in BOOLEAN :
          (/\ last'.op = "mouseDown"
           /\ selectedTool = "selection"
           /\ Len(selectedElementIds) = 1
           /\ Find(elements, selectedElementIds[1]) # Null
           /\ HandlesInReach(point, Find(elements, selectedElementIds[1])) # {}
           /\ PointerDownAt(point, shiftKey)) =>
              /\ drawingState'.isResizing
              /\ drawingState'.resizeHandle \in
                     HandlesInReach(point, Find(elements, selectedElementIds[1]))
              /\ drawingState'.resizeStartBounds =
                     getElementBounds(Find(elements, selectedElementIds[1]))
              /\ selectedElementIds' = selectedElementIds
              /\ drawingState'.isDragging = drawingState.isDragging
              /\ drawingState'.isBoxSelecting = drawingState.isBoxSelecting
              /\ UNCHANGED <<elements, history>>]_vars

\* a handle of the selected element was pressed where the element itself
\* lies under the pointer
C18_Witness ==
    /\ last.op = "mouseDown" /\ pressed = "selection"
    /\ drawingState.isResizing /\ GestureFlags(drawingState) = {"isResizing"}
    /\ drawingState.resizeHandle # NullHandle
    /\ Len(selectedElementIds) = 1
    /\ Find(elements, selectedElementIds[1]) # Null
    /\ drawingState.resizeStartBounds = getElementBounds(Find(elements, selectedElementIds[1]))
    /\ \E point \in ScreenPoints :
           /\ drawingState.resizeHandle \in
                  HandlesInReach(point, Find(elements, selectedElementIds[1]))
           /\ isPointInElement(getWorldPoint(point), Find(elements, selectedElementIds[1]))

\* the elements under the world point, as indices into elements
Under(worldPoint) ==
    {i \in 1..Len(elements) : isPointInElement(worldPoint, elements[i])}

\* the step is a pointer-down of the selection tool at point that no resize
\* handle takes
SelectionDownAt(point, shiftKey) ==
    /\ last'.op = "mouseDown"
    /\ selectedTool = "selection"
    /\ HandleUnderPointer(point) = NullHandle
    /\ Under(getWorldPoint(point)) # {}
    /\ PointerDownAt(point, shiftKey)

\* C19: when the pointer-down world point lies inside several elements, the
\* element chosen is the latest in the elements order: no earlier element
\* under the point is selected or dragged.
C19_TopmostWins ==
    [][\A point \in ScreenPoints, shiftKey \in BOOLEAN :
          (Cardinality(Under(getWorldPoint(point))) >= 2 /\ SelectionDownAt(point, shiftKey)) =>
              LET worldPoint == getWorldPoint(point)
                  top == elements[MaxOf(Under(worldPoint))]
                  bounds == getElementBounds(top)
              IN /\ ~shiftKey => selectedElementIds' = <<top.id>>
                 /\ \A i \in Under(worldPoint) :
                        elements[i].id # top.id =>
                            (Includes(selectedElementIds', elements[i].id)
                                 <=> (shiftKey /\ Includes(selectedElementIds, elements[i].id)))
                 /\ Includes(selectedElementIds', top.id) =>
                        /\ drawingState'.isDragging
                        /\ drawingState'.dragOffset =
                               Pt(worldPoint.x - bounds.minX, worldPoint.y - bounds.minY)]_vars

\* two elements under one point, the later one selected and dragged
C19_Witness ==
    /\ last.op = "mouseDown" /\ pressed = "selection"
    /\ Len(elements) = 2
    /\ elements[1] # elements[2]
    /\ selectedElementIds = <<elements[2].id>>
    /\ GestureFlags(drawingState) = {"isDragging"}
    /\ \E point \in ScreenPoints :
           /\ Under(getWorldPoint(point)) = {1, 2}
           /\ drawingState.dragOffset =
                  Pt(getWorldPoint(point).x - getElementBounds(elements[2]).minX,
                     getWorldPoint(point).y - getElementBounds(elements[2]).minY)

\* C20: a pointer-down on an element with the selection tool makes the
\* selection exactly that element without shift, and toggles the element with
\* shift (added if absent, removed if present, the other ids kept); Dragging
\* is entered, with dragOffset = worldPoint - the element's bounds minimum, if
\* and only if the element is selected after the update.
C20_SelectToggleDrag ==
    [][\A point \in ScreenPoints, shiftKey \in BOOLEAN :
          SelectionDownAt(point, shiftKey) =>
              LET worldPoint == getWorldPoint(point)
                  clicked == elements[MaxOf(Under(worldPoint))]
                  bounds == getElementBounds(clicked)
                  others == SeqToSet(selectedElementIds) \ {clicked.id}
              IN /\ ~shiftKey => selectedElementIds' = <<clicked.id>>
                 /\ (shiftKey /\ Includes(selectedElementIds, clicked.id)) =>
                        selectedElementIds' = Filter(selectedElementIds, others)
                 /\ (shiftKey /\ ~Includes(selectedElementIds, clicked.id)) =>
                        selectedElementIds' = Append(selectedElementIds, clicked.id)
                 /\ drawingState'.isDragging <=> Includes(selectedElementIds', clicked.id)
                 /\ drawingState'.isDragging =>
                        drawingState'.dragOffset =
                            Pt(worldPoint.x - bounds.minX, worldPoint.y - bounds.minY)]_vars

\* a shift click took the clicked element out of the selection and began no
\* drag
C20_Witness ==
    /\ last.op = "mouseDown" /\ pressed = "selection"
    /\ Idle(drawingState)
    /\ drawingState.dragOffset = Null
    /\ elements # <<>>
    /\ \E point \in ScreenPoints :
           /\ Under(getWorldPoint(point)) # {}
           /\ ~Includes(selectedElementIds, elements[MaxOf(Under(getWorldPoint(point)))].id)

\* C21: a pointer-down on empty space with the selection tool enters
\* BoxSelecting with box start = box end = the world point; the selection is
\* cleared without shift, and kept, with the additive flag set, with shift.
C21_EmptySpaceStartsBox ==
    [][\A point \in ScreenPoints, shiftKey \in BOOLEAN :
          (/\ last'.op = "mouseDown"
           /\ selectedTool = "selection"
           /\ HandleUnderPointer(point) = NullHandle
           /\ Under(getWorldPoint(point)) = {}
           /\ PointerDownAt(point, shiftKey)) =>
              /\ drawingState'.isBoxSelecting
              /\ drawingState'.boxSelectionStart = getWorldPoint(point)
              /\ drawingState'.boxSelectionEnd = getWorldPoint(point)
              /\ drawingState'.boxSelectionShiftKey = shiftKey
              /\ selectedElementIds' = IF shiftKey THEN selectedElementIds ELSE <<>>
              /\ UNCHANGED <<elements, history>>]_vars

\* a shift press on empty space that kept a selection
C21_Witness ==
    /\ last.op = "mouseDown" /\ pressed = "selection"
    /\ GestureFlags(drawingState) = {"isBoxSelecting"}
    /\ drawingState.boxSelectionShiftKey
    /\ drawingState.boxSelectionStart # Null
    /\ drawingState.boxSelectionStart = drawingState.boxSelectionEnd
    /\ selectedElementIds # <<>>
    /\ Under(drawingState.boxSelectionStart) = {}

\* the ids of the elements whose bounds intersect the box of the open box
\* selection of ds
IdsInBox(ds) ==
    LET boxMinX == Min(ds.boxSelectionStart.x, ds.boxSelectionEnd.x)
        boxMinY == Min(ds.boxSelectionStart.y, ds.boxSelectionEnd.y)
        boxMaxX == Max(ds.boxSelectionStart.x, ds.boxSelectionEnd.x)
        boxMaxY == Max(ds.boxSelectionStart.y, ds.boxSelectionEnd.y)
    IN {elements[i].id : i \in {j \in 1..Len(elements) :
            elementIntersectsBox(elements[j], boxMinX, boxMinY, boxMaxX, boxMaxY)}}

NoIdTwice(ids) == Cardinality(SeqToSet(ids)) = Len(ids)

\* C22: a pointer-up in BoxSelecting makes the selection, in replace mode,
\* exactly the ids of the elements whose bounds intersect the box, and in
\* additive mode the prior selection followed by the intersecting ids not
\* yet in it: every selected id stays selected and no id appears twice.
C22_BoxSelectCommit ==
    [][(last'.op \in {"mouseUp", "mouseLeave"} /\ BoxOpen(drawingState)) =>
          /\ NoIdTwice(selectedElementIds')
          /\ IF drawingState.boxSelectionShiftKey
               THEN /\ SeqToSet(selectedElementIds') =
                          SeqToSet(selectedElementIds) \union IdsInBox(drawingState)
                    /\ Len(selectedElementIds') >= Len(selectedElementIds)
                    /\ SubSeq(selectedElementIds', 1, Len(selectedElementIds))
                          = selectedElementIds
               ELSE SeqToSet(selectedElementIds') = IdsInBox(drawingState)
          /\ UNCHANGED <<elements, history>>]_vars

\* an additive box over an element that was selected already
C22_Witness ==
    /\ last.box = "additive"
    /\ selectedElementIds # <<>>
    /\ ~drawingState.isBoxSelecting
    /\ \E i \in 1..Len(elements) :
           /\ selectedElementIds = <<elements[i].id>>
           /\ getElementBounds(elements[i]).minX <= 60
           /\ getElementBounds(elements[i]).maxX >= 0

\* the Dragging state: the drag gesture and no other
Dragging(ds) ==
    /\ GestureFlags(ds) = {"isDragging"}
    /\ ds.dragOffset # Null

Resizing(ds) ==
    /\ GestureFlags(ds) = {"isResizing"}
    /\ ds.resizeHandle # NullHandle
    /\ ds.resizeStartBounds # Null

\* the element a resize acts on: the first selected one, if it exists
ResizedIndex ==
    {i \in 1..Len(elements) :
        /\ Len(selectedElementIds) > 0
        /\ elements[i].id = selectedElementIds[1]
        /\ \A j \in 1..(i - 1) : elements[j].id # selectedElementIds[1]}

\* C24: a pointer-move in Resizing of a rectangle, circle or text element
\* leaves its bounds equal to the gesture-start bounds with only the edges
\* named by the handle replaced by the pointer's world coordinates, the other
\* edges where they were, and its width and height at 10 or more.
C24_ResizeKeepsOtherEdges ==
    [][\A point \in ScreenPoints, i \in ResizedIndex :
          (/\ last'.op = "mouseMove"
           /\ Resizing(drawingState)
           /\ elements[i].type \in {"rectangle", "circle", "text"}
           /\ handleMouseMove(point)) =>
              /\ getElementBounds(elements'[i]) =
                     ResizedBounds(drawingState.resizeStartBounds,
                                   drawingState.resizeHandle, getWorldPoint(point))
              /\ elements'[i].width >= 10
              /\ elements'[i].height >= 10]_vars

(***************************************************************************)
(* Panning at several zoom levels: the store's setZoom and the pointer     *)
(* handlers, with zoom levels and pointer positions for which every world  *)
(* and screen coordinate of a reachable state is a whole multiple of 10,   *)
(* so that the divisions and products by zoom are exact.                   *)
(***************************************************************************)
PanZooms == {ZoomUnit \div 2, ZoomUnit, 2 * ZoomUnit}

PanPoints == {Pt(0, 0), Pt(40, 20), Pt(60, 60)}

PanSetZoom ==
    /\ \E zoom \in PanZooms : zoom # canvasState.zoom /\ SetZoom(zoom)
    /\ Event
    /\ UNCHANGED <<drawingState, nextId>>
    /\ Observe("setZoom", "other", TRUE)

PanMouseDown ==
    /\ \E point \in PanPoints, button \in Buttons : onMouseDown(point, button, FALSE)
    /\ Event

PanMouseMove ==
    /\ \E point \in PanPoints : handleMouseMove(point)
    /\ Event

PanMouseUp ==
    /\ \E point \in PanPoints : handleMouseUp(point, "mouseUp")
    /\ Event

NextPan ==
    \/ PanSetZoom
    \/ PanMouseDown
    \/ PanMouseMove
    \/ PanMouseUp

SpecPan == Init /\ [][NextPan]_vars

\* C25: a pointer-move in Panning makes the offset offset - (screen delta /
\* zoom) and the pan anchor the pointer position, so the world point under
\* the pointer after the move is the one that was under the anchor before
\* it; zoom, elements, selection and history are unchanged.
C25_PanFollowsPointer ==
    [][\A point \in PanPoints :
          (/\ last'.op = "mouseMove"
           /\ drawingState.isPanning
           /\ drawingState.panStart # Null
           /\ handleMouseMove(point)) =>
              LET dx == point.x - drawingState.panStart.x
                  dy == point.y - drawingState.panStart.y
              IN /\ (canvasState.offsetX - canvasState'.offsetX) * canvasState.zoom
                        = dx * ZoomUnit
                 /\ (canvasState.offsetY - canvasState'.offsetY) * canvasState.zoom
                        = dy * ZoomUnit
                 /\ canvasState'.zoom = canvasState.zoom
                 /\ drawingState'.panStart = point
                 /\ toWorldCoordinates(point, canvasState'.zoom,
                                       canvasState'.offsetX, canvasState'.offsetY)
                      = toWorldCoordinates(drawingState.panStart, canvasState.zoom,
                                           canvasState.offsetX, canvasState.offsetY)
                 /\ UNCHANGED <<elements, selectedElementIds, history>>]_vars

\* a pan at a zoom other than 1 that moved the offset on both axes by
\* different amounts
C25_Witness ==
    /\ last.op = "mouseMove"
    /\ drawingState.isPanning
    /\ drawingState.panStart = Pt(40, 20)
    /\ canvasState.zoom # DEFAULT_ZOOM
    /\ canvasState.offsetX # 0
    /\ canvasState.offsetY # 0
    /\ canvasState.offsetX # canvasState.offsetY
    /\ elements # <<>>

(***************************************************************************)
(* Text editing (Canvas.tsx): the canvas's guarded onMouseDown, the double *)
(* click that puts a text element under edit, and the blur, Enter or       *)
(* Escape that ends the edit.                                              *)
(***************************************************************************)
TextTools == {"selection", "text"}

\* the text element with this id becomes the one under edit
handleDoubleClick(id) ==
    /\ \E i \in 1..Len(elements) : elements[i].id = id /\ elements[i].type = "text"
    /\ editingTextId' = id

\* handleTextBlur, and handleTextKeyDown on Enter or Escape
handleTextBlur ==
    /\ editingTextId # NullId
    /\ editingTextId' = NullId

TextSelectTool ==
    /\ \E tool \in TextTools : SetSelectedTool(tool)
    /\ Event
    /\ UNCHANGED <<drawingState, nextId>>
    /\ Observe("setSelectedTool", "other", TRUE)

TextMouseDown ==
    /\ \E point \in ScreenPoints, button \in Buttons, shiftKey \in BOOLEAN :
           onMouseDown(point, button, shiftKey)
    /\ Event

TextMouseMove ==
    /\ \E point \in ScreenPoints : handleMouseMove(point)
    /\ Event

TextMouseUp ==
    /\ \E point \in ScreenPoints : handleMouseUp(point, "mouseUp")
    /\ Event

TextDoubleClick ==
    /\ \E id \in 1..MaxIds : handleDoubleClick(id)
    /\ calls < MaxEvents
    /\ calls' = calls + 1
    /\ UNCHANGED <<storeVars, drawingState, nextId>>
    /\ Observe("doubleClick", "other", TRUE)

TextBlur ==
    /\ handleTextBlur
    /\ calls < MaxEvents
    /\ calls' = calls + 1
    /\ UNCHANGED <<storeVars, drawingState, nextId>>
    /\ Observe("blur", "other", TRUE)

NextText ==
    \/ TextSelectTool
    \/ TextMouseDown
    \/ TextMouseMove
    \/ TextMouseUp
    \/ TextDoubleClick
    \/ TextBlur

SpecText == Init /\ [][NextText]_vars

PointerDownOps == {"mouseDown", "middleDown", "mouseDownSuppressed"}

\* C27: at most one element is under edit, the one whose id editingTextId
\* holds, and a pointer-down on the canvas while an element is under edit
\* changes neither the gesture state, nor the selection, nor elements.
C27_EditingSuppressesPointerDown ==
    [][/\ Cardinality({i \in 1..Len(elements') : elements'[i].id = editingTextId'}) <= 1
       /\ (editingTextId # NullId /\ last'.op \in PointerDownOps) =>
              UNCHANGED <<drawingState, selectedElementIds, elements>>]_vars

\* a pointer-down arrived with the text tool while a text element was under
\* edit
C27_Witness ==
    /\ last.op = "mouseDownSuppressed"
    /\ editingTextId # NullId
    /\ selectedTool = "text"
    /\ \E i \in 1..Len(elements) :
           elements[i].id = editingTextId /\ elements[i].type = "text"

(***************************************************************************)
(* The geometry functions called on their own, on one element in one       *)
(* viewport: the coordinates are multiples of 10 and the zoom levels       *)
(* multiples of 0.1, so that every product and quotient by zoom is whole.  *)
(***************************************************************************)
GeoZooms == {MIN_ZOOM, ZoomUnit \div 2, DEFAULT_ZOOM, MAX_ZOOM}

GeoOffsets == {Pt(0, 0), Pt(20, -10)}

GeoCoords == {-10, 0, 10, 30}

GeoPoints == {Pt(x, y) : x, y \in GeoCoords}

GeoElements ==
    {createDrawingElement(1, type, Pt(0, 0), endPoint, 1) :
        type \in ShapeTools, endPoint \in {Pt(10, 30), Pt(30, 10)}}

GeoSpans == {<<-10, -10>>, <<-10, 0>>, <<0, 10>>, <<10, 30>>, <<30, 30>>}

GeoWidths == {0, 10, 30}

InitGeo ==
    /\ elements \in {<<element>> : element \in GeoElements}
    /\ selectedTool = "selection"
    /\ selectedElementIds = <<>>
    /\ canvasState \in {[zoom |-> zoom, offsetX |-> offset.x, offsetY |-> offset.y] :
                            zoom \in GeoZooms, offset \in GeoOffsets}
    /\ history = EmptyHistory
    /\ drawingState = InitialDrawingState
    /\ editingTextId = NullId
    /\ nextId = Len(elements) + 1
    /\ calls = 0
    /\ last = [op |-> "init", effective |-> FALSE, hadFuture |-> FALSE,
               stale |-> FALSE, afterUndo |-> FALSE, box |-> "none",
               before |-> Null]
    /\ undone = <<>>
    /\ law = LawFresh(elements)
    /\ pushed = [formers |-> <<>>, pure |-> TRUE]
    /\ scene = "none"
    /\ pressed = "none"
    /\ probe = NoProbe

\* one call in each behaviour: the functions are pure
GeoFrame ==
    /\ probe = NoProbe
    /\ UNCHANGED <<storeVars, drawingState, editingTextId, nextId, calls, last,
                   undone, law, pushed, scene, pressed>>

\* getWorldPoint(getScreenPoint(point))
ProbeRoundTrip ==
    /\ \E point \in GeoPoints :
           LET screen == toScreenCoordinates(point, canvasState.zoom,
                                             canvasState.offsetX, canvasState.offsetY)
           IN probe' = [fn |-> "toWorldCoordinates", point |-> point, screen |-> screen,
                        world |-> toWorldCoordinates(screen, canvasState.zoom,
                                      canvasState.offsetX, canvasState.offsetY)]
    /\ GeoFrame

\* the render's drawHandles and the pointer-down's getResizeHandle, on the
\* same element in the same viewport
ProbeHandles ==
    /\ probe' = [fn |-> "handles", drawn |-> drawHandles(elements[1]),
                 tested |-> handlePositions2(elements[1])]
    /\ GeoFrame

ProbeIntersectsBox ==
    /\ \E spanX \in GeoSpans, spanY \in GeoSpans :
           probe' = [fn |-> "elementIntersectsBox",
                     boxMinX |-> spanX[1], boxMinY |-> spanY[1],
                     boxMaxX |-> spanX[2], boxMaxY |-> spanY[2],
                     result |-> elementIntersectsBox(elements[1], spanX[1], spanY[1],
                                                     spanX[2], spanY[2])]
    /\ GeoFrame

ProbePointInRectangle ==
    /\ \E point \in GeoPoints, width \in GeoWidths :
           probe' = [fn |-> "pointInRectangle", point |-> point,
                     x |-> 0, y |-> 0, width |-> width, height |-> 10,
                     result |-> pointInRectangle(point, 0, 0, width, 10)]
    /\ GeoFrame

\* the export of the element alone, with a rectangle before or after it,
\* and of that rectangle alone or twice
SvgInputs ==
    LET rectangle == Rect(2, 10, 10, 50, 30)
    IN {elements, <<rectangle>> \o elements, elements \o <<rectangle>>,
        <<rectangle>>, <<rectangle, Rect(3, -10, 30, 10, 10)>>}

ProbeElementsToSVG ==
    /\ \E els \in SvgInputs :
           probe' = [fn |-> "elementsToSVG", elements |-> els, svg |-> elementsToSVG(els)]
    /\ GeoFrame

NextGeo ==
    \/ ProbeRoundTrip
    \/ ProbeHandles
    \/ ProbeIntersectsBox
    \/ ProbePointInRectangle
    \/ ProbeElementsToSVG

SpecGeo == InitGeo /\ [][NextGeo]_vars

\* C26: for every element and every viewport the eight positions at which
\* the selection handles are drawn are the eight positions the resize-handle
\* hit-test measures to.
C26_DrawnHandlesAreHitTested ==
    probe.fn = "handles" => probe.drawn = probe.tested

SpansMeet(lo1, hi1, lo2, hi2) ==
    \E v \in Min(lo1, lo2)..Max(hi1, hi2) : lo1 <= v /\ v <= hi1 /\ lo2 <= v /\ v <= hi2

\* C29: elementIntersectsBox is true exactly when the element's bounds and
\* the box overlap or touch on both axes.
C29_IntersectsIffOverlapOrTouch ==
    probe.fn = "elementIntersectsBox" =>
        LET bounds == getElementBounds(elements[1])
        IN probe.result <=>
              /\ SpansMeet(bounds.minX, bounds.maxX, probe.boxMinX, probe.boxMaxX)
              /\ SpansMeet(bounds.minY, bounds.maxY, probe.boxMinY, probe.boxMaxY)

\* a box that only touches the element's corner
C29_Witness ==
    /\ probe.fn = "elementIntersectsBox"
    /\ probe.result
    /\ getElementBounds(elements[1]).maxX = probe.boxMinX
    /\ getElementBounds(elements[1]).maxY = probe.boxMinY
    /\ probe.boxMinX < probe.boxMaxX

\* C30: pointInRectangle(p, x, y, w, h) is true if and only if
\* x <= p.x <= x + w and y <= p.y <= y + h.
C30_PointInRectangleInclusive ==
    probe.fn = "pointInRectangle" =>
        (probe.result <=>
            /\ probe.x <= probe.point.x /\ probe.point.x <= probe.x + probe.width
            /\ probe.y <= probe.point.y /\ probe.point.y <= probe.y + probe.height)

\* a point on the far corner of the rectangle
C30_Witness ==
    /\ probe.fn = "pointInRectangle"
    /\ probe.result
    /\ probe.width > 0
    /\ probe.point.x = probe.x + probe.width
    /\ probe.point.y = probe.y + probe.height

IsRectangle(element) == element.type = "rectangle"

IsRectTag(tag) == tag.tag = "rect"

\* C31: elementsToSVG emits a viewBox of (minX - 20, minY - 20,
\* (maxX - minX) + 40, (maxY - minY) + 40) for the union of the elements'
\* bounds and one rect tag with the element's x, y, width, height for each
\* rectangle; one rectangle at (10,10,50,30) gives viewBox -10 -10 90 70.
C31_SvgViewBoxAndRects ==
    probe.fn = "elementsToSVG" =>
        LET els == probe.elements
            all == {getElementBounds(els[i]) : i \in 1..Len(els)}
            minX == MinOf({b.minX : b \in all})
            minY == MinOf({b.minY : b \in all})
            maxX == MaxOf({b.maxX : b \in all})
            maxY == MaxOf({b.maxY : b \in all})
            rectangles == SelectSeq(els, IsRectangle)
            rects == SelectSeq(probe.svg.body, IsRectTag)
        IN /\ probe.svg.viewBox =
                 <<minX - 20, minY - 20, (maxX - minX) + 40, (maxY - minY) + 40>>
           /\ Len(rects) = Len(rectangles)
           /\ \A i \in 1..Len(rects) :
                  /\ rects[i].x = rectangles[i].x
                  /\ rects[i].y = rectangles[i].y
                  /\ rects[i].width = rectangles[i].width
                  /\ rects[i].height = rectangles[i].height
           /\ els = <<Rect(2, 10, 10, 50, 30)>> =>
                  probe.svg.viewBox = <<-10, -10, 90, 70>>

\* the export of two rectangles and of the single rectangle at (10,10,50,30)
C31_Witness ==
    /\ probe.fn = "elementsToSVG"
    /\ \/ /\ probe.elements = <<Rect(2, 10, 10, 50, 30)>>
          /\ probe.svg.viewBox = <<-10, -10, 90, 70>>
          /\ Len(probe.svg.body) = 1
       \/ /\ Len(probe.elements) = 2
          /\ Len(SelectSeq(probe.svg.body, IsRectTag)) = 2
          /\ probe.svg.viewBox[1] < -10

(***************************************************************************)
(* Gestures on saved lines, arrows and freehand strokes: the primary       *)
(* button with and without shift, at four pointer positions.               *)
(***************************************************************************)
ShapeCanvases ==
    {<<createDrawingElement(1, "line", Pt(0, 0), Pt(60, 60), 1)>>,
     <<createDrawingElement(1, "arrow", Pt(60, 60), Pt(0, 0), 1)>>,
     <<createDrawingElement(1, "freehand", Pt(0, 0), Pt(60, 0), 1)>>,
     <<Rect(1, 0, 0, 40, 40), createDrawingElement(2, "line", Pt(60, 0), Pt(60, 60), 1)>>}

ShapePoints == {Pt(0, 0), Pt(60, 0), Pt(60, 60), Pt(40, 20)}

InitShapes ==
    /\ elements \in ShapeCanvases
    /\ selectedTool = "selection"
    /\ selectedElementIds = <<>>
    /\ canvasState = [zoom |-> DEFAULT_ZOOM, offsetX |-> 0, offsetY |-> 0]
    /\ history = EmptyHistory
    /\ drawingState = InitialDrawingState
    /\ editingTextId = NullId
    /\ nextId = Len(elements) + 1
    /\ calls = 0
    /\ last = [op |-> "init", effective |-> FALSE, hadFuture |-> FALSE,
               stale |-> FALSE, afterUndo |-> FALSE, box |-> "none",
               before |-> Null]
    /\ undone = <<>>
    /\ law = LawFresh(elements)
    /\ pushed = [formers |-> <<>>, pure |-> TRUE]
    /\ scene = "none"
    /\ pressed = "none"
    /\ probe = NoProbe

ShapeMouseDown ==
    /\ \E point \in ShapePoints, shiftKey \in BOOLEAN : onMouseDown(point, 0, shiftKey)
    /\ Event

ShapeMouseMove ==
    /\ \E point \in ShapePoints : handleMouseMove(point)
    /\ Event

ShapeMouseUp ==
    /\ \E point \in ShapePoints : handleMouseUp(point, "mouseUp")
    /\ Event

NextShapes ==
    \/ ShapeMouseDown
    \/ ShapeMouseMove
    \/ ShapeMouseUp

SpecShapes == InitShapes /\ [][NextShapes]_vars

\* C32: a pointer-move in Resizing of a line or arrow changes only the start
\* point (x, y) with the handles nw, n, w and only the end point (x2, y2)
\* with the others; the moved endpoint becomes the min corner (start) or the
\* max corner (end) of the gesture-start bounds updated by the handle.
C32_LineResizeMovesOneEnd ==
    [][\A point \in ShapePoints, i \in ResizedIndex :
          (/\ last'.op = "mouseMove"
           /\ Resizing(drawingState)
           /\ elements[i].type \in {"line", "arrow"}
           /\ handleMouseMove(point)) =>
              LET newBounds == ResizedBounds(drawingState.resizeStartBounds,
                                   drawingState.resizeHandle, getWorldPoint(point))
              IN /\ elements'[i] =
                      IF drawingState.resizeHandle \in {"nw", "n", "w"}
                        THEN [elements[i] EXCEPT !.x = newBounds.minX,
                                                 !.y = newBounds.minY]
                        ELSE [elements[i] EXCEPT !.x2 = newBounds.maxX,
                                                 !.y2 = newBounds.maxY]
                 /\ \A j \in 1..Len(elements) : j # i => elements'[j] = elements[j]
                 /\ Len(elements') = Len(elements)]_vars

\* a resize by the ne handle moved the end point of a line and left its start
C32_Witness ==
    /\ last.op = "mouseMove"
    /\ Resizing(drawingState)
    /\ drawingState.resizeHandle = "ne"
    /\ \E i \in ResizedIndex :
           /\ elements[i].type = "line"
           /\ getElementBounds(elements[i]) # drawingState.resizeStartBounds
           /\ elements[i].x = 0 /\ elements[i].y = 0
           /\ elements[i].y2 = 60

\* C33: in a freehand Drawing gesture the first pointer-move creates a
\* preview with points [startPoint, currentPoint], each later pointer-move
\* appends exactly the current world point, the preview keeps its id, and
\* the element added on pointer-up has that id.
C33_FreehandAppends ==
    [][\A point \in ScreenPoints :
         /\ (/\ last.op = "mouseDown"
             /\ last'.op = "mouseMove"
             /\ selectedTool = "freehand"
             /\ Drawing(drawingState)
             /\ handleMouseMove(point)) =>
                 /\ drawingState'.currentElement # Null
                 /\ drawingState'.currentElement.type = "freehand"
                 /\ drawingState'.currentElement.points =
                        <<drawingState.startPoint, getWorldPoint(point)>>
         /\ (/\ last.op = "mouseMove"
             /\ last'.op = "mouseMove"
             /\ selectedTool = "freehand"
             /\ Drawing(drawingState)
             /\ drawingState.currentElement # Null
             /\ handleMouseMove(point)) =>
                 /\ drawingState'.currentElement.points =
                        Append(drawingState.currentElement.points, getWorldPoint(point))
                 /\ drawingState'.currentElement.id = drawingState.currentElement.id
         /\ (/\ last'.op \in {"mouseUp", "mouseLeave"}
             /\ selectedTool = "freehand"
             /\ Drawing(drawingState)
             /\ drawingState.currentElement # Null
             /\ handleMouseUp(point, last'.op)) =>
                 /\ Len(elements') = Len(elements) + 1
                 /\ elements'[Len(elements')].id = drawingState.currentElement.id]_vars

\* C34: undo() called right after a structural operation restores elements
\* to the collection as it was immediately before that operation, patch
\* edits made since the previous checkpoint included.
C34_UndoRestoresBeforeOperation ==
    [][(last.op \in StructuralOps /\ last'.op = "undo") =>
          elements' = last.before]_vars

\* C35: in every reachable state every id in selectedElementIds is the id of
\* an element present in elements.
C35_SelectionRefersToElements ==
    \A k \in 1..Len(selectedElementIds) :
        \E i \in 1..Len(elements) : elements[i].id = selectedElementIds[k]

\* C36: whenever no gesture is active the gesture payload is clear:
\* currentElement and startPoint are null, also when the tool is changed
\* between pointer-down and pointer-up.
C36_IdlePayloadClear ==
    Idle(drawingState) =>
        /\ drawingState.currentElement = Null
        /\ drawingState.startPoint = Null

\* the size and shape of an element, wherever it is
ShapeOf(element) ==
    CASE element.type \in {"rectangle", "circle", "text"} ->
           <<element.width, element.height>>
      [] element.type \in {"line", "arrow"} ->
           <<element.x2 - element.x, element.y2 - element.y>>
      [] element.type = "freehand" ->
           [k \in 1..Len(element.points) |->
               <<element.points[k].x - element.x, element.points[k].y - element.y>>]

\* C37: a pointer-move in Dragging translates rigidly: every selected
\* element keeps its size and shape (width and height; for a line or arrow
\* the vector from (x, y) to (x2, y2); for freehand the points relative to
\* x, y) and the selected elements keep their relative positions.
C37_DragIsRigid ==
    [][(last'.op = "mouseMove" /\ Dragging(drawingState)) =>
          LET selected == {i \in 1..Len(elements) :
                              Includes(selectedElementIds, elements[i].id)}
          IN /\ Len(elements') = Len(elements)
             /\ \A i \in selected : ShapeOf(elements'[i]) = ShapeOf(elements[i])
             /\ \A i, j \in selected :
                    /\ elements'[i].x - elements'[j].x = elements[i].x - elements[j].x
                    /\ elements'[i].y - elements'[j].y = elements[i].y - elements[j].y]_vars

\* C38: with the selection tool and no shift, a pointer-down at a world
\* point where isPointInElement is false for every element, followed by a
\* pointer-up with no move in between, leaves the selection empty.
C38_ClickOnNothingSelectsNothing ==
    [][(/\ last'.op = "mouseUp"
        /\ last.op = "mouseDown"
        /\ selectedTool = "selection"
        /\ GestureFlags(drawingState) = {"isBoxSelecting"}
        /\ BoxOpen(drawingState)
        /\ ~drawingState.boxSelectionShiftKey
        /\ drawingState.boxSelectionStart = drawingState.boxSelectionEnd
        /\ selectedElementIds = <<>>
        /\ \A i \in 1..Len(elements) :
               ~isPointInElement(drawingState.boxSelectionStart, elements[i])) =>
          selectedElementIds' = <<>>]_vars

\* the ids of a list of elements, in order
IdsOf(els) == [i \in 1..Len(els) |-> els[i].id]

\* C39: element ids are unique and immutable: no two elements share an id;
\* a drag, resize or other patch keeps every element's id, a draw commit
\* keeps the existing elements and adds one with an id of its own, and undo
\* and redo put back a stored snapshot as it was stored.
C39_IdsUniqueAndImmutable ==
    [][/\ NoIdTwice(IdsOf(elements))
       /\ NoIdTwice(IdsOf(elements'))
       /\ last'.op \in {"mouseMove", "mouseDown", "setSelectedTool"} =>
              IdsOf(elements') = IdsOf(elements)
       /\ last'.op \in {"mouseUp", "mouseLeave"} =>
              \/ elements' = elements
              \/ /\ Len(elements') = Len(elements) + 1
                 /\ SubSeq(elements', 1, Len(elements)) = elements
                 /\ ~Includes(IdsOf(elements), elements'[Len(elements')].id)
       /\ last'.op \in {"undo", "redo"} =>
              \/ elements' = elements
              \/ Includes(history.past \o history.future, elements')]_vars

\* two drawn elements with ids of their own, one of them moved, after an
\* undo and a redo
C39_Witness ==
    /\ last.op = "redo" /\ last.effective
    /\ Len(elements) = 2
    /\ elements[1].id # elements[2].id
    /\ NoIdTwice(IdsOf(elements))

\* the timeline of h: its snapshots from the oldest to the newest
Timeline(h) == h.past \o <<h.present>> \o h.future

\* C40: undo and redo only move the cursor: the timeline past ++ [present]
\* ++ future is the same before and after any undo() or redo(), and in
\* every reachable state past and future together hold at most
\* HISTORY_LIMIT snapshots.
C40_UndoRedoMoveCursorOnly ==
    [][/\ Len(history.past) + Len(history.future) <= HISTORY_LIMIT
       /\ Len(history'.past) + Len(history'.future) <= HISTORY_LIMIT
       /\ last'.op \in {"undo", "redo"} => Timeline(history') = Timeline(history)]_vars

\* a redo after undos, with the cursor inside a timeline that is full
C40_Witness ==
    /\ last.op = "redo" /\ last.effective
    /\ history.past # <<>>
    /\ history.future # <<>>
    /\ Len(history.past) + Len(history.future) = HISTORY_LIMIT

====
